---- MODULE Spec2Model ----
(***************************************************************************)
(* A model of sensAI's evaluation and model-comparison subsystem:          *)
(*   - ClassificationEvalStats, its metrics and the probability threshold  *)
(*     sweep (evaluation/eval_stats/eval_stats_classification.py),         *)
(*   - EvaluationUtil.compareModels and MultiDataEvaluationUtil            *)
(*     .compareModels (evaluation/eval_util.py).                           *)
(*                                                                         *)
(* Conventions.  Python values of different types are encoded as strings:  *)
(* the label 1 is "1", True is "True", the strings "1" and "True" are      *)
(* "'1'" and "'True'"; None is "None".  Python's == identifies 1 with True *)
(* and 0 with False (PyEq).  Probabilities are given in units of 1/1000     *)
(* and stand for the nearest floats; thresholds and split fractions are    *)
(* floats (IEEE 754 binary64) with their exact bits; precision, recall and *)
(* means are fractions [num, den] compared by cross-multiplication.        *)
(***************************************************************************)
EXTENDS Integers, Sequences, FiniteSets, TLC

VARIABLES
    ctorArgs,      \* the arguments of ClassificationEvalStats(...)
    es,            \* the ClassificationEvalStats object (constructed = FALSE before/without construction)
    lastCall,      \* the operation that ran last on the eval stats
    raised,        \* the exception the last operation raised ("" if it returned)
    dictResult,    \* the dictionary returned by the last metricsDict()
    valueResult,   \* the value returned by the last metric computation
    computeLog     \* history: the _computeValue invocations so far (metric, probabilities None?)

statsVars == <<ctorArgs, es, lastCall, raised, dictResult, valueResult, computeLog>>

VARIABLES
    cmpArgs,       \* the arguments of the compareModels call (and the object it is called on)
    cmpCall,       \* "none" before the call, then the method that was called
    cmpRaised,     \* the exception the call raised ("" if it returned)
    cmpLog,        \* history: models created, fitted, evaluated, cross-validated, visitors called
    cmpResult      \* the comparison data the call returned

compareVars == <<cmpArgs, cmpCall, cmpRaised, cmpLog, cmpResult>>

VARIABLES
    evArgs,        \* the arguments of the operation on an evaluator, a splitter or an evaluation util
    evCall,        \* "none" before the call, then the operation that was called
    evEvaluator,   \* the evaluator that was constructed (constructed = FALSE if none)
    evRaised,      \* the exception the call raised ("" if it returned)
    evLog,         \* history: model.fit, evaluations and createPlots, in their order
    evSplit,       \* the pair (A, B) the split returned
    evResult       \* the evaluation data performSimpleEvaluation returned

evaluatorVars == <<evArgs, evCall, evEvaluator, evRaised, evLog, evSplit, evResult>>

VARIABLES
    cgGen,         \* the column generator
    cgCache,       \* the cache of the generator: the value stored for each key (None if none)
    cgCacheBefore, \* history: the cache at the beginning of the last generate_column
    cgCalled,      \* whether generate_column was called
    cgRepeated,    \* history: whether the last call had the data frame of the call before
    cgDf,          \* the data frame of the last generate_column
    cgResult,      \* the series it returned
    cgInvoked      \* history: the invocations of the wrapped generator (or of _generate_value) in it

columnVars == <<cgGen, cgCache, cgCacheBefore, cgCalled, cgRepeated, cgDf, cgResult, cgInvoked>>

VARIABLES
    psCall,       \* the last call: "none", "setstate" or "Vectoriser.__setstate__"
    psSuperClass, \* the super class of the class whose __setstate__ called setstate
    psState,      \* the state dictionary that was passed in
    psRenamed,    \* renamedProperties
    psOptional,   \* newOptionalProperties
    psHandled,    \* the state dictionary after the handling of new and changed properties
    psDict        \* the __dict__ of the object after the call

pickleVars == <<psCall, psSuperClass, psState, psRenamed, psOptional, psHandled, psDict>>

VARIABLES
    gcList,         \* the statsList of the collection
    gcGlobal,       \* self.globalStats
    gcReturned,     \* the object that the last getGlobalStats returned
    gcRaised,       \* the exception that it raised, "" if none
    gcCalls,        \* the number of calls of getGlobalStats
    gcConstructions \* history: the number of global objects constructed

collectionVars == <<gcList, gcGlobal, gcReturned, gcRaised, gcCalls, gcConstructions>>

\* The state that the operations of one part leave alone
outsideStats == <<compareVars, evaluatorVars, columnVars, pickleVars, collectionVars>>

outsideCompare == <<statsVars, evaluatorVars, columnVars, pickleVars, collectionVars>>

outsideEvaluator == <<statsVars, compareVars, columnVars, pickleVars, collectionVars>>

outsideColumn == <<statsVars, compareVars, evaluatorVars, pickleVars, collectionVars>>

outsidePickle == <<statsVars, compareVars, evaluatorVars, columnVars, collectionVars>>

outsideCollection == <<statsVars, compareVars, evaluatorVars, columnVars, pickleVars>>

----------------------------------------------------------------------------
(* Bounds of the model *)

MaxLabels == 3
MaxSamples == 3
MaxMetrics == 2
MaxFactories == 2
MaxDataSets == 2
MaxDataPoints == 3
MaxRows == 3
MaxProperties == 2
MaxMembers == 2
MaxCalls == 2

----------------------------------------------------------------------------
(* Python values *)

GUESS == "__guess"

BINARY_CLASSIFICATION_POSITIVE_LABEL_CANDIDATES == <<"1", "True", "'1'", "'True'">>

\* The label values the inputs are drawn from.
LabelUniverse == {"1", "True", "'1'", "'True'", "0", "False"}

\* Python's ==: bool is a subclass of int, 1 == True and 0 == False.
PyEq(a, b) ==
    \/ a = b
    \/ {a, b} = {"1", "True"}
    \/ {a, b} = {"0", "False"}

\* Python's `x in seq`.
PyIn(x, seq) == \E i \in 1..Len(seq) : PyEq(x, seq[i])

\* set(a) == set(b) for sequences of hashable values.
PySetEq(a, b) ==
    /\ \A i \in 1..Len(a) : PyIn(a[i], b)
    /\ \A i \in 1..Len(b) : PyIn(b[i], a)

NoneList == [isNone |-> TRUE, items |-> <<>>]
SomeList(s) == [isNone |-> FALSE, items |-> s]

\* A data frame of class probabilities: columns (labels) and one row per sample.
NoneDF == [isNone |-> TRUE, columns |-> <<>>, rows |-> <<>>]
DataFrame(cols, rows) == [isNone |-> FALSE, columns |-> cols, rows |-> rows]

\* The position of the column that df[label] selects, 0 if there is none (KeyError).
ColumnIndex(df, label) ==
    IF \E i \in 1..Len(df.columns) : PyEq(df.columns[i], label)
    THEN CHOOSE i \in 1..Len(df.columns) :
            /\ PyEq(df.columns[i], label)
            /\ \A j \in 1..(i - 1) : ~PyEq(df.columns[j], label)
    ELSE 0

\* Values of metrics: NaN, a fraction, or the result of a library routine.
NaN == [kind |-> "nan", num |-> 0, den |-> 1]
Frac(n, d) == [kind |-> "frac", num |-> n, den |-> d]
ExternalValue == [kind |-> "external", num |-> 0, den |-> 1]
NoValue == [kind |-> "none", num |-> 0, den |-> 1]

\* a < b for fractions with positive denominators
FracLess(a, b) == a.num * b.den < b.num * a.den

----------------------------------------------------------------------------
(* Metrics *)

\* str(label) as used in f"{name}[{positiveClassLabel}]"
PyStr(label) ==
    CASE label = "'1'" -> "1"
      [] label = "'True'" -> "True"
      [] OTHER -> label

\* A metric name: the base name, its numeric parameter (-1 if none) and the
\* "[label]" suffix ("" if none).
MetricName(base, arg, suffix) == [base |-> base, arg |-> arg, suffix |-> suffix]

ClassificationMetric(cls, name, requiresProbabilities) ==
    [cls |-> cls, name |-> name, requiresProbabilities |-> requiresProbabilities,
     minPrecision |-> 0, positiveClassLabel |-> "None"]

ClassificationMetricAccuracy ==
    ClassificationMetric("ClassificationMetricAccuracy", MetricName("accuracy", -1, ""), FALSE)

ClassificationMetricBalancedAccuracy ==
    ClassificationMetric("ClassificationMetricBalancedAccuracy", MetricName("balancedAccuracy", -1, ""), FALSE)

ClassificationMetricGeometricMeanOfTrueClassProbability ==
    ClassificationMetric("ClassificationMetricGeometricMeanOfTrueClassProbability",
                         MetricName("geoMeanTrueClassProb", -1, ""), TRUE)

\* BinaryClassificationMetric.__init__: the label is appended to the name unless it
\* is one of the candidates.
BinaryClassificationMetric(cls, base, arg, positiveClassLabel) ==
    [cls |-> cls,
     name |-> MetricName(base, arg,
                 IF ~PyIn(positiveClassLabel, BINARY_CLASSIFICATION_POSITIVE_LABEL_CANDIDATES)
                 THEN PyStr(positiveClassLabel) ELSE ""),
     requiresProbabilities |-> FALSE,
     minPrecision |-> 0,
     positiveClassLabel |-> positiveClassLabel]

BinaryClassificationMetricPrecision(l) ==
    BinaryClassificationMetric("BinaryClassificationMetricPrecision", "precision", -1, l)

BinaryClassificationMetricRecall(l) ==
    BinaryClassificationMetric("BinaryClassificationMetricRecall", "recall", -1, l)

BinaryClassificationMetricF1Score(l) ==
    BinaryClassificationMetric("BinaryClassificationMetricF1Score", "F1", -1, l)

\* precision is given in percent
BinaryClassificationMetricRecallForPrecision(precision, l) ==
    [BinaryClassificationMetric("BinaryClassificationMetricRecallForPrecision",
                                "recallForPrecision", precision, l)
        EXCEPT !.minPrecision = precision]

\* The default metrics of ClassificationEvalStats (metrics = None)
DefaultMetrics(isBinary, binaryPositiveLabel) ==
    <<ClassificationMetricAccuracy, ClassificationMetricBalancedAccuracy,
      ClassificationMetricGeometricMeanOfTrueClassProbability>>
    \o (IF isBinary
        THEN <<BinaryClassificationMetricPrecision(binaryPositiveLabel),
               BinaryClassificationMetricRecall(binaryPositiveLabel),
               BinaryClassificationMetricF1Score(binaryPositiveLabel)>>
        ELSE <<>>)

----------------------------------------------------------------------------
(* ClassificationEvalStats.__init__ *)

RECURSIVE GuessLoop(_, _)
\* for c in BINARY_CLASSIFICATION_POSITIVE_LABEL_CANDIDATES: if c in labels: ... break
GuessLoop(i, labels) ==
    IF i > Len(BINARY_CLASSIFICATION_POSITIVE_LABEL_CANDIDATES) THEN "None"
    ELSE IF PyIn(BINARY_CLASSIFICATION_POSITIVE_LABEL_CANDIDATES[i], labels)
         THEN BINARY_CLASSIFICATION_POSITIVE_LABEL_CANDIDATES[i]
         ELSE GuessLoop(i + 1, labels)

\* A faulty variant of the resolution below: guesses for label lists of any length
GuessAnyLength(binaryPositiveLabel, labels) ==
    IF binaryPositiveLabel = GUESS THEN GuessLoop(1, labels) ELSE binaryPositiveLabel

\* The value of self.binaryPositiveLabel for the constructor's argument
ResolveBinaryPositiveLabel(binaryPositiveLabel, labels) ==
    IF binaryPositiveLabel = GUESS
    THEN IF Len(labels) = 2 THEN GuessLoop(1, labels) ELSE "None"
    ELSE binaryPositiveLabel

\* EvalStats.__init__ of the base class: [raised, metrics]; at least one metric is
\* required and the additional metrics follow the metrics
EvalStatsInit(metrics, additionalMetrics) ==
    IF Len(metrics) = 0
    THEN [raised |-> "ValueError", metrics |-> <<>>]
    ELSE [raised |-> "",
          metrics |-> metrics \o (IF additionalMetrics.isNone THEN <<>>
                                  ELSE additionalMetrics.items)]

NoVarData == [isNone |-> TRUE, thresholds |-> <<>>, counts |-> <<>>]

NoEvalStats ==
    [constructed |-> FALSE, labels |-> <<>>, y_true |-> <<>>,
     y_predictedClassProbabilities |-> NoneDF, probabilitiesAvailable |-> FALSE,
     binaryPositiveLabel |-> "None", isBinary |-> FALSE, metrics |-> <<>>,
     varData |-> NoVarData]

\* lines 265-268: an additional metric that needs probabilities is rejected when
\* there are none
AdditionalMetricGuard(probabilitiesAvailable, additionalMetrics) ==
    /\ ~additionalMetrics.isNone
    /\ \E i \in 1..Len(additionalMetrics.items) :
          ~probabilitiesAvailable /\ additionalMetrics.items[i].requiresProbabilities

\* The constructor: [raised, es]
ClassificationEvalStatsInit(a) ==
    LET probabilitiesAvailable == ~a.probs.isNone
        binaryPositiveLabel == ResolveBinaryPositiveLabel(a.binaryPositiveLabel, a.labels)
        isBinary == binaryPositiveLabel # "None"
        metrics == IF a.metrics.isNone
                   THEN DefaultMetrics(isBinary, binaryPositiveLabel)
                   ELSE a.metrics.items
        failed(e) == [raised |-> e, es |-> NoEvalStats]
    IN  IF probabilitiesAvailable /\ ~PySetEq(a.probs.columns, a.labels)
        THEN failed("ValueError")
        ELSE IF probabilitiesAvailable /\ Len(a.probs.rows) # Len(a.y_true)
        THEN failed("ValueError")
        ELSE IF AdditionalMetricGuard(probabilitiesAvailable, a.additionalMetrics)
        THEN failed("ValueError")
        ELSE IF EvalStatsInit(metrics, a.additionalMetrics).raised # ""
        THEN failed(EvalStatsInit(metrics, a.additionalMetrics).raised)
        ELSE [raised |-> "",
              es |-> [constructed |-> TRUE,
                      labels |-> a.labels,
                      y_true |-> a.y_true,
                      y_predictedClassProbabilities |-> a.probs,
                      probabilitiesAvailable |-> probabilitiesAvailable,
                      binaryPositiveLabel |-> binaryPositiveLabel,
                      isBinary |-> isBinary,
                      metrics |-> EvalStatsInit(metrics, a.additionalMetrics).metrics,
                      varData |-> NoVarData]]

----------------------------------------------------------------------------
(* Floating-point numbers (Python float, IEEE 754 binary64)                 *)

\* The number of significant bits of a float
Precision == 53

\* A float: its sign, the integer part of its magnitude and the bits of the
\* fractional part (without trailing zeros); None is NoFraction
Float(neg, int, frac) == [isNone |-> FALSE, neg |-> neg, int |-> int, frac |-> frac]

\* The w binary digits of a natural number below 2^w
BitsOfWidth(n, w) == [i \in 1..w |-> (n \div 2^(w - i)) % 2]

\* The binary digits of a natural number, none for 0
IntBits(n) ==
    BitsOfWidth(n, CHOOSE w \in 0..30 : n < 2^w /\ (w = 0 \/ n >= 2^(w - 1)))

RECURSIVE BitsValue(_)
\* The natural number of the (few) binary digits
BitsValue(bits) ==
    IF Len(bits) = 0 THEN 0
    ELSE 2 * BitsValue(SubSeq(bits, 1, Len(bits) - 1)) + bits[Len(bits)]

\* The positions of the ones
Ones(bits) == {i \in 1..Len(bits) : bits[i] = 1}

\* The bits without trailing zeros
TrimZeros(bits) ==
    IF Ones(bits) = {} THEN <<>>
    ELSE SubSeq(bits, 1, CHOOSE i \in Ones(bits) : \A j \in Ones(bits) : j <= i)

\* The number of zeros before the first one
LeadingZeros(bits) ==
    IF Ones(bits) = {} THEN Len(bits)
    ELSE (CHOOSE i \in Ones(bits) : \A j \in Ones(bits) : i <= j) - 1

\* The bits of the number plus one, of the same length; all zeros on overflow
Increment(bits) ==
    LET zeros == {i \in 1..Len(bits) : bits[i] = 0}
    IN IF zeros = {} THEN [i \in 1..Len(bits) |-> 0]
       ELSE LET last == CHOOSE i \in zeros : \A j \in zeros : j <= i
            IN [i \in 1..Len(bits) |-> IF i < last THEN bits[i] ELSE IF i = last THEN 1 ELSE 0]

\* The float of the digits with the binary point after the first `point` digits
FloatOfDigits(neg, digits, point) ==
    Float(neg /\ Ones(digits) # {}, BitsValue(SubSeq(digits, 1, point)),
          TrimZeros(SubSeq(digits, point + 1, Len(digits))))

\* The digits rounded at the position `last`, the first significant digit being
\* at `first`
RoundedDigits(neg, digits, point, first, last, sticky) ==
    LET kept == SubSeq(digits, first, last)
        rest == sticky \/ \E i \in (last + 2)..Len(digits) : digits[i] = 1
        up == digits[last + 1] = 1 /\ (rest \/ kept[Len(kept)] = 1)
        zeros == [i \in 1..(first - 1) |-> 0]
    IN IF ~up THEN FloatOfDigits(neg, zeros \o kept, point)
       ELSE IF Ones(kept) = 1..Len(kept)
       THEN IF first = 1 THEN FloatOfDigits(neg, <<1>> \o Increment(kept), point + 1)
            ELSE FloatOfDigits(neg, [zeros EXCEPT ![first - 1] = 1] \o Increment(kept), point)
       ELSE FloatOfDigits(neg, zeros \o Increment(kept), point)

\* The digits with the binary point after the first `point` digits and `leading`
\* zeros before the first one, rounded to the precision
RoundDigits(neg, digits, point, leading, sticky) ==
    IF Len(digits) <= leading + Precision
    THEN FloatOfDigits(neg, digits, point)
    ELSE RoundedDigits(neg, digits, point, leading + 1, leading + Precision, sticky)

\* The number of digits before the binary point and the digits
PointedDigits(intBits, frac) == [point |-> Len(intBits), digits |-> intBits \o frac]

\* Rounding to the nearest float, ties to even: the magnitude has the integer
\* part int, the fraction bits frac and, if sticky, a non-zero rest below them
FloatRound(neg, int, frac, sticky) ==
    LET RoundPointed(d) == RoundDigits(neg, d.digits, d.point, LeadingZeros(d.digits), sticky)
    IN RoundPointed(PointedDigits(IntBits(int), frac))

\* x * x modulo den
SquareMod(x, den) == (x * x) % den

RECURSIVE Pow2Mod(_, _)
\* 2^i modulo den
Pow2Mod(i, den) ==
    IF i = 0 THEN 1 % den
    ELSE IF i % 2 = 0 THEN SquareMod(Pow2Mod(i \div 2, den), den)
    ELSE (2 * Pow2Mod(i - 1, den)) % den

\* The remainder of the division of r by den after i fraction bits
RemainderAfter(r, den, i) == (r * Pow2Mod(i, den)) % den

\* The first w fraction bits of r/den (r < den)
DivBits(r, den, w) ==
    [i \in 1..w |-> IF 2 * RemainderAfter(r, den, i - 1) >= den THEN 1 ELSE 0]

\* num / den (den > 0): the quotient to two bits beyond the precision, rounded
FloatOf(num, den) ==
    LET a == IF num < 0 THEN -num ELSE num
        w == Precision + 2 + Len(IntBits(den))
    IN FloatRound(num < 0, a \div den, DivBits(a % den, den, w),
                  RemainderAfter(a % den, den, w) # 0)

RECURSIVE MulLoop(_, _, _, _, _)
\* n times the chunks (of the width) of fraction bits up to the i-th, with the
\* carry from the chunks behind: [bits, carry]
MulLoop(n, frac, width, i, st) ==
    IF i = 0 THEN st
    ELSE LET chunk == BitsValue(SubSeq(frac, (i - 1) * width + 1, i * width))
             product == n * chunk + st.carry
         IN MulLoop(n, frac, width, i - 1,
                    [bits |-> BitsOfWidth(product % 2^width, width) \o st.bits,
                     carry |-> product \div 2^width])

\* n * f for a natural number n below 2^15: the exact product, computed 15 bits
\* at a time, rounded
FloatTimes(n, f) ==
    LET width == 15
        chunks == (Len(f.frac) + width - 1) \div width
        padded == f.frac \o [i \in 1..(chunks * width - Len(f.frac)) |-> 0]
        m == MulLoop(n, padded, width, chunks, [bits |-> <<>>, carry |-> 0])
    IN FloatRound(f.neg, n * f.int + m.carry, m.bits, FALSE)

\* The bits of 1 - 0.frac, for frac with a one
Complement(frac) == Increment([i \in 1..Len(frac) |-> 1 - frac[i]])

\* 1 - f
FloatOneMinus(f) ==
    IF f.neg THEN FloatRound(FALSE, f.int + 1, f.frac, FALSE)
    ELSE IF f.int >= 1 THEN FloatRound(TRUE, f.int - 1, f.frac, FALSE)
    ELSE IF Len(f.frac) = 0 THEN Float(FALSE, 1, <<>>)
    ELSE FloatRound(FALSE, 0, Complement(f.frac), FALSE)

\* int(f): truncation towards zero
FloatTrunc(f) == IF f.neg THEN -f.int ELSE f.int

\* The order of the magnitudes: -1, 0 or 1
CompareMagnitude(f, g) ==
    LET n == IF Len(f.frac) < Len(g.frac) THEN Len(f.frac) ELSE Len(g.frac)
        first == CHOOSE i \in 1..n : f.frac[i] # g.frac[i] /\ \A j \in 1..(i - 1) : f.frac[j] = g.frac[j]
    IN IF f.int # g.int THEN (IF f.int < g.int THEN -1 ELSE 1)
       ELSE IF \E i \in 1..n : f.frac[i] # g.frac[i]
       THEN (IF f.frac[first] = 0 THEN -1 ELSE 1)
       ELSE IF Len(f.frac) = Len(g.frac) THEN 0
       ELSE IF Len(f.frac) < Len(g.frac) THEN -1 ELSE 1

\* f < g
FloatLess(f, g) ==
    IF f.neg # g.neg THEN f.neg
    ELSE IF f.neg THEN CompareMagnitude(f, g) = 1
    ELSE CompareMagnitude(f, g) = -1

----------------------------------------------------------------------------
(* BinaryClassificationCounts and the probability threshold sweep *)

NumThresholds == 101

\* np.linspace(0, 1, NumThresholds): the multiples of the float step
\* 1 / (NumThresholds - 1), the last element being the float 1
thresholds == <<>> \o [i \in 1..NumThresholds |-> IF i = NumThresholds THEN FloatOf(1, 1) ELSE FloatTimes(i - 1, FloatOf(1, NumThresholds - 1))]

\* The floats of the probabilities 0, 0.001, ..., 1
ProbabilityFloats == <<>> \o [i \in 1..1001 |-> FloatOf(i - 1, 1000)]

\* The float of a probability given in units of 1/1000
Probability(p) == ProbabilityFloats[p + 1]

RECURSIVE CountLoop(_, _, _)
\* for predPositive, gtPositive in zip(isPositivePrediction, isPositiveGroundTruth)
CountLoop(isPositivePrediction, isPositiveGroundTruth, c) ==
    IF isPositivePrediction = <<>> \/ isPositiveGroundTruth = <<>> THEN c
    ELSE LET predPositive == Head(isPositivePrediction)
             gtPositive == Head(isPositiveGroundTruth)
             c2 == IF gtPositive
                   THEN IF predPositive THEN [c EXCEPT !.tp = @ + 1]
                                        ELSE [c EXCEPT !.fn = @ + 1]
                   ELSE IF predPositive THEN [c EXCEPT !.fp = @ + 1]
                                        ELSE [c EXCEPT !.tn = @ + 1]
         IN CountLoop(Tail(isPositivePrediction), Tail(isPositiveGroundTruth), c2)

BinaryClassificationCounts(isPositivePrediction, isPositiveGroundTruth) ==
    CountLoop(isPositivePrediction, isPositiveGroundTruth,
              [tp |-> 0, tn |-> 0, fp |-> 0, fn |-> 0])

\* A faulty variant of the comparison below: strict inequality
IsPositivePredictionMutant(p, threshold) == FloatLess(threshold, Probability(p))

\* p >= threshold
IsPositivePrediction(p, threshold) == ~FloatLess(Probability(p), threshold)

fromProbabilityThreshold(probabilities, threshold, isPositiveGroundTruth) ==
    BinaryClassificationCounts(
        [i \in 1..Len(probabilities) |-> IsPositivePrediction(probabilities[i], threshold)],
        isPositiveGroundTruth)

NoCounts == [tp |-> 0, tn |-> 0, fp |-> 0, fn |-> 0]

\* The part of fromEvalStats after the checks; col is the position of the column
\* evalStats.y_predictedClassProbabilities[posClassLabel]
fromEvalStatsColumn(e, threshold, posClassLabel, col) ==
    IF col = 0 THEN [raised |-> "KeyError", counts |-> NoCounts]
    ELSE [raised |-> "",
          counts |-> fromProbabilityThreshold(
              [i \in 1..Len(e.y_predictedClassProbabilities.rows) |->
                  e.y_predictedClassProbabilities.rows[i][col]],
              threshold,
              [i \in 1..Len(e.y_true) |-> PyEq(e.y_true[i], posClassLabel)])]

\* BinaryClassificationCounts.fromEvalStats: [raised, counts]
fromEvalStats(e, threshold) ==
    IF ~e.isBinary THEN [raised |-> "ValueError", counts |-> NoCounts]
    ELSE IF e.y_predictedClassProbabilities.isNone
    THEN [raised |-> "ValueError", counts |-> NoCounts]
    ELSE fromEvalStatsColumn(e, threshold, e.binaryPositiveLabel,
                             ColumnIndex(e.y_predictedClassProbabilities, e.binaryPositiveLabel))

\* self.zeroDenominatorMetricValue (default 0) if the denominator is 0
frac(numerator, denominator) ==
    IF denominator = 0 THEN Frac(0, 1) ELSE Frac(numerator, denominator)

getPrecision(c) == frac(c.tp, c.tp + c.fp)

getRecall(c) == frac(c.tp, c.tp + c.fn)

\* self.counts.append(r) for the counts r of one threshold, or the exception
SweepStep(st, r) ==
    [i |-> st.i + 1, raised |-> r.raised,
     counts |-> IF r.raised = "" THEN Append(st.counts, r.counts) ELSE st.counts]

RECURSIVE SweepLoop(_, _)
\* for threshold in self.thresholds: self.counts.append(fromEvalStats(evalStats, threshold))
\* st = [i, raised, counts]
SweepLoop(e, st) ==
    IF st.i > NumThresholds \/ st.raised # "" THEN st
    ELSE SweepLoop(e, SweepStep(st, fromEvalStats(e, thresholds[st.i])))

VariationDataOf(st) ==
    IF st.raised # ""
    THEN [raised |-> st.raised, varData |-> NoVarData]
    ELSE [raised |-> "",
          varData |-> [isNone |-> FALSE, thresholds |-> thresholds, counts |-> st.counts]]

\* BinaryClassificationProbabilityThresholdVariationData.__init__: [raised, varData]
BinaryClassificationProbabilityThresholdVariationData(e) ==
    VariationDataOf(SweepLoop(e, [i |-> 1, raised |-> "", counts |-> <<>>]))

\* self._binaryClassificationProbabilityThresholdVariationData = r
CacheVariationData(e, r) ==
    [raised |-> r.raised, es |-> [e EXCEPT !.varData = r.varData], varData |-> r.varData]

\* ClassificationEvalStats.getBinaryClassificationProbabilityThresholdVariationData:
\* [raised, es, varData]; the data is created once and cached
getBinaryClassificationProbabilityThresholdVariationData(e) ==
    IF e.varData.isNone
    THEN CacheVariationData(e, BinaryClassificationProbabilityThresholdVariationData(e))
    ELSE [raised |-> "", es |-> e, varData |-> e.varData]

\* A faulty variant of the comparison below: strict inequality
ReachesPrecisionMutant(precision, minPrecision) ==
    precision.num * 100 > minPrecision * precision.den

\* precision >= self.minPrecision (minPrecision in percent)
ReachesPrecision(precision, minPrecision) ==
    precision.num * 100 >= minPrecision * precision.den

\* The body of the loop over varData.counts: the result after visiting a count
\* with the given precision and recall
RecallForPrecisionStep(precision, recall, minPrecision, result) ==
    IF ReachesPrecision(precision, minPrecision)
    THEN IF result.kind = "nan" \/ FracLess(result, recall) THEN recall ELSE result
    ELSE result

RECURSIVE RecallForPrecisionLoop(_, _, _)
\* result = np.nan; for c in varData.counts: ...   st = [i, result] is the position
\* in counts and the result so far
RecallForPrecisionLoop(counts, minPrecision, st) ==
    IF st.i > Len(counts) THEN st.result
    ELSE RecallForPrecisionLoop(counts, minPrecision,
            [i |-> st.i + 1,
             result |-> RecallForPrecisionStep(getPrecision(counts[st.i]), getRecall(counts[st.i]),
                                               minPrecision, st.result)])

\* The loop of computeValueForEvalStats on the variation data r (or its exception)
RecallForPrecisionOf(m, r, log) ==
    IF r.raised # ""
    THEN [raised |-> r.raised, es |-> r.es, value |-> NoValue, log |-> log]
    ELSE [raised |-> "", es |-> r.es,
          value |-> RecallForPrecisionLoop(r.varData.counts, m.minPrecision,
                                           [i |-> 1, result |-> NaN]),
          log |-> log]

\* BinaryClassificationMetricRecallForPrecision.computeValueForEvalStats:
\* [raised, es, value, log]
RecallForPrecisionComputeValueForEvalStats(m, e, log) ==
    RecallForPrecisionOf(m, getBinaryClassificationProbabilityThresholdVariationData(e), log)

----------------------------------------------------------------------------
(* ClassificationMetric.computeValue and ClassificationEvalStats.metricsDict *)

\* A faulty variant of the guard below: never raises
ComputeValueGuardMutant(m, probsIsNone) == FALSE

\* self.requiresProbabilities and y_predictedClassProbabilities is None
ComputeValueGuard(m, probsIsNone) == m.requiresProbabilities /\ probsIsNone

\* self._computeValue(...): recallForPrecision supports computeValueForEvalStats only;
\* the other metrics are computed by library routines
ComputeValueImpl(m, probsIsNone, log) ==
    IF m.cls = "BinaryClassificationMetricRecallForPrecision"
    THEN [raised |-> "NotImplementedError", value |-> NoValue,
          log |-> log \cup {[metric |-> m, probsIsNone |-> probsIsNone]}]
    ELSE [raised |-> "", value |-> ExternalValue,
          log |-> log \cup {[metric |-> m, probsIsNone |-> probsIsNone]}]

\* ClassificationMetric.computeValue: [raised, value, log]
computeValue(m, probsIsNone, log) ==
    IF ComputeValueGuard(m, probsIsNone)
    THEN [raised |-> "ValueError", value |-> NoValue, log |-> log]
    ELSE ComputeValueImpl(m, probsIsNone, log)

WithEvalStats(e, r) == [raised |-> r.raised, es |-> e, value |-> r.value, log |-> r.log]

\* metric.computeValueForEvalStats(evalStats): [raised, es, value, log]
computeValueForEvalStats(m, e, log) ==
    IF m.cls = "BinaryClassificationMetricRecallForPrecision"
    THEN RecallForPrecisionComputeValueForEvalStats(m, e, log)
    ELSE WithEvalStats(e, computeValue(m, e.y_predictedClassProbabilities.isNone, log))

\* EvalStats.computeMetricValue
computeMetricValue(e, m, log) == computeValueForEvalStats(m, e, log)

\* d[name] = value for a dictionary kept as a sequence of items in insertion order
DictSet(d, name, value) ==
    IF \E i \in 1..Len(d) : d[i].name = name
    THEN [i \in 1..Len(d) |-> IF d[i].name = name THEN [name |-> name, value |-> value] ELSE d[i]]
    ELSE Append(d, [name |-> name, value |-> value])

DictKeys(d) == {d[i].name : i \in 1..Len(d)}

\* not metric.requiresProbabilities or self._probabilitiesAvailable
MetricsDictFilter(m, probabilitiesAvailable) ==
    ~m.requiresProbabilities \/ probabilitiesAvailable

\* d[metric.name] = r for the result r of computeMetricValue (or its exception)
MetricsDictStep(st, metric, r) ==
    [i |-> st.i + 1, raised |-> r.raised, es |-> r.es,
     d |-> IF r.raised = "" THEN DictSet(st.d, metric.name, r.value) ELSE st.d,
     log |-> r.log]

RECURSIVE MetricsDictLoop(_, _)
\* for metric in self.metrics: ... ; st = [i, raised, es, d, log]
MetricsDictLoop(metrics, st) ==
    IF st.i > Len(metrics) \/ st.raised # "" THEN st
    ELSE IF MetricsDictFilter(metrics[st.i], st.es.probabilitiesAvailable)
         THEN MetricsDictLoop(metrics,
                  MetricsDictStep(st, metrics[st.i],
                                  computeMetricValue(st.es, metrics[st.i], st.log)))
         ELSE MetricsDictLoop(metrics, [st EXCEPT !.i = @ + 1])

\* ClassificationEvalStats.metricsDict: [raised, es, d, log]
metricsDict(e, log) ==
    MetricsDictLoop(e.metrics, [i |-> 1, raised |-> "", es |-> e, d |-> <<>>, log |-> log])

----------------------------------------------------------------------------
(* Inputs of the eval stats operations *)

RECURSIVE SeqsUpTo(_, _)
\* all sequences over S of length at most n
SeqsUpTo(S, n) ==
    IF n = 0 THEN {<<>>}
    ELSE LET shorter == SeqsUpTo(S, n - 1)
         IN shorter \cup {Append(q, x) : q \in {t \in shorter : Len(t) = n - 1}, x \in S}

\* The samples of the binary problems: the position of the true label in labels and
\* the probability of the second label, in units of 1/1000
SampleKinds == {<<2, 995>>, <<2, 570>>, <<2, 500>>, <<1, 500>>}

\* minimum precisions of recallForPrecision metrics, in percent
MinPrecisions == {0, 50, 100}

NoCall == [op |-> "none", metric |-> ClassificationMetricAccuracy, probsIsNone |-> FALSE]

CtorArgs(y_true, probs, labels, metrics, additionalMetrics, binaryPositiveLabel) ==
    [y_true |-> y_true, probs |-> probs, labels |-> labels, metrics |-> metrics,
     additionalMetrics |-> additionalMetrics, binaryPositiveLabel |-> binaryPositiveLabel]

\* Label lists of every length with every way of passing binaryPositiveLabel
GuessInputs ==
    {CtorArgs(<<>>, NoneDF, labels, NoneList, NoneList, b) :
        labels \in SeqsUpTo(LabelUniverse, MaxLabels),
        b \in {GUESS, "None", "1", "0"}}

\* The labels and the binaryPositiveLabel argument of the binary problems: the
\* positive label guessed (second and first column), given explicitly, and given
\* explicitly but absent from the labels
BinaryProblems ==
    {<<<<"0", "1">>, GUESS>>, <<<<"1", "0">>, GUESS>>, <<<<"0", "1">>, "0">>,
     <<<<"0", "1">>, "'1'">>}

\* Binary problems with class probabilities for every sample; a sample is the
\* position of its true label in labels and the probability of the second label
SweepInputs ==
    {CtorArgs([i \in 1..Len(smp) |-> bp[1][smp[i][1]]],
              DataFrame(bp[1], [i \in 1..Len(smp) |-> <<1000 - smp[i][2], smp[i][2]>>]),
              bp[1], NoneList, NoneList, bp[2]) :
        bp \in BinaryProblems,
        smp \in SeqsUpTo(SampleKinds, MaxSamples)}

MetricChoices ==
    {ClassificationMetricAccuracy,
     ClassificationMetricGeometricMeanOfTrueClassProbability,
     BinaryClassificationMetricRecallForPrecision(50, "1")}

\* One sample, with and without (well-formed) probabilities, and every choice of
\* metrics and additional metrics
MetricsInputs ==
    {CtorArgs(<<"1">>, probs, labels, metrics, additionalMetrics, GUESS) :
        labels \in {<<"0", "1">>, <<"0", "1", "'1'">>},
        probs \in {NoneDF, DataFrame(<<"1", "0">>, <<<<500, 500>>>>),
                   DataFrame(<<"0", "1", "'1'">>, <<<<0, 1000, 0>>>>),
                   DataFrame(<<"0", "1">>, <<>>)},
        metrics \in {NoneList, SomeList(<<>>), SomeList(<<ClassificationMetricAccuracy>>),
                     SomeList(<<ClassificationMetricGeometricMeanOfTrueClassProbability>>),
                     SomeList(<<BinaryClassificationMetricRecallForPrecision(50, "1")>>)},
        additionalMetrics \in {NoneList} \cup {SomeList(q) : q \in SeqsUpTo(MetricChoices, MaxMetrics)}}

\* The metrics that computeValue / computeValueForEvalStats are called with
CallMetrics ==
    {ClassificationMetricAccuracy, ClassificationMetricGeometricMeanOfTrueClassProbability}
    \cup {BinaryClassificationMetricRecallForPrecision(p, "1") : p \in MinPrecisions}

----------------------------------------------------------------------------
(* Models, model factories and their evaluation (eval_util.py)              *)

\* The order of model names (groupby sorts the groups by name)
NameOrder == <<"a", "b", "c", "d", "e">>

\* A value of a metric that a model reaches on a data set; pattern says how the
\* value depends on the number c of the data set: absent from the metrics, a number,
\* the number c itself, NaN, or NaN from the second data set on
MetricValue(pattern, c) ==
    CASE pattern = "absent" -> [present |-> FALSE, value |-> NaN]
      [] pattern = "one" -> [present |-> TRUE, value |-> Frac(1, 1)]
      [] pattern = "two" -> [present |-> TRUE, value |-> Frac(2, 1)]
      [] pattern = "count" -> [present |-> TRUE, value |-> Frac(c, 1)]
      [] pattern = "countdown" -> [present |-> TRUE, value |-> Frac(4 - c, 1)]
      [] pattern = "nan" -> [present |-> TRUE, value |-> NaN]
      [] pattern = "nanLater" ->
            [present |-> TRUE, value |-> IF c = 1 THEN Frac(3, 1) ELSE NaN]
      [] pattern = "absentLater" ->
            [present |-> c = 1, value |-> IF c = 1 THEN Frac(3, 1) ELSE NaN]

\* A model factory: the name and the type of the models it creates (at the first
\* call and at later calls) and the values of the metrics A and B of its models
ModelFactory(name, laterName, isRegression, laterIsRegression, metricA, metricB) ==
    [name |-> name, laterName |-> laterName, isRegression |-> isRegression,
     laterIsRegression |-> laterIsRegression, metricA |-> metricA, metricB |-> metricB]

\* f(): the model that the c-th call of the factory at position f creates, a new
\* object (identified by factory and call) with a name, a type and the metrics it
\* will reach
CreateModel(fac, f, c) ==
    [factory |-> f, call |-> c,
     name |-> IF c = 1 THEN fac.name ELSE fac.laterName,
     isRegression |-> IF c = 1 THEN fac.isRegression ELSE fac.laterIsRegression,
     metricA |-> MetricValue(fac.metricA, c),
     metricB |-> MetricValue(fac.metricB, c)]

\* An entry of the history
Event(ev, model, dataset) ==
    [ev |-> ev, factory |-> model.factory, call |-> model.call, name |-> model.name,
     isRegression |-> model.isRegression, dataset |-> dataset]

\* evalStats.metricsDict() / evalStatsCollection.aggMetricsDict() of an evaluated model
StatsDictOf(model) ==
    (IF model.metricA.present THEN <<[name |-> "A", value |-> model.metricA.value]>> ELSE <<>>)
    \o (IF model.metricB.present THEN <<[name |-> "B", value |-> model.metricB.value]>> ELSE <<>>)

\* The eval stats object (or the global stats of the collection) that an evaluation
\* of the model on the data set yields
EvalStatsOf(model, dataset) ==
    [factory |-> model.factory, call |-> model.call, isRegression |-> model.isRegression,
     dataset |-> dataset]

\* EvaluationUtil.performSimpleEvaluation(model, fitModel=...): the evaluator is
\* created for the model, fits it if asked to and evaluates it: [log, evalStats, statsDict]
performSimpleEvaluation(model, dataset, fitModel, log) ==
    [log |-> (IF fitModel THEN Append(log, Event("fit", model, dataset)) ELSE log)
                \o <<Event("eval", model, dataset)>>,
     evalStats |-> EvalStatsOf(model, dataset),
     statsDict |-> StatsDictOf(model)]

\* EvaluationUtil.performCrossValidation(model): [log, evalStats, statsDict]
performCrossValidation(model, dataset, log) ==
    [log |-> Append(log, Event("crossval", model, dataset)),
     evalStats |-> EvalStatsOf(model, dataset),
     statsDict |-> StatsDictOf(model)]

RECURSIVE VisitLoop(_, _, _, _, _)
\* for visitor in visitors: visitor.visit(modelName, modelResult)
VisitLoop(visitors, i, model, dataset, log) ==
    IF i > Len(visitors) THEN log
    ELSE VisitLoop(visitors, i + 1, model, dataset,
                   Append(log, Event("visit", model, dataset)))

----------------------------------------------------------------------------
(* Data frames: columns (metric names), and rows with the data set key, the  *)
(* model name and one value per column                                       *)

EmptyDF == [columns |-> <<>>, rows |-> <<>>]

Row(key, modelName, values) == [key |-> key, modelName |-> modelName, values |-> values]

ColumnPos(columns, c) ==
    IF \E i \in 1..Len(columns) : columns[i] = c
    THEN CHOOSE i \in 1..Len(columns) : columns[i] = c
    ELSE 0

RECURSIVE UnionColumns(_, _)
\* The columns followed by the new ones among more, in their order
UnionColumns(columns, more) ==
    IF more = <<>> THEN columns
    ELSE UnionColumns(IF ColumnPos(columns, Head(more)) = 0
                      THEN Append(columns, Head(more)) ELSE columns,
                      Tail(more))

\* The values of a row under other columns: NaN where the row has no value
Realign(row, fromColumns, toColumns) ==
    [row EXCEPT !.values =
        [j \in 1..Len(toColumns) |->
            IF ColumnPos(fromColumns, toColumns[j]) = 0 THEN NaN
            ELSE row.values[ColumnPos(fromColumns, toColumns[j])]]]

\* pd.concat((a, b))
Concat(a, b) ==
    [columns |-> UnionColumns(a.columns, b.columns),
     rows |-> [i \in 1..Len(a.rows) |->
                  Realign(a.rows[i], a.columns, UnionColumns(a.columns, b.columns))]
              \o [i \in 1..Len(b.rows) |->
                  Realign(b.rows[i], b.columns, UnionColumns(a.columns, b.columns))]]

\* The data frame of one dictionary of metrics
FrameOfDict(key, modelName, statsDict) ==
    [columns |-> [i \in 1..Len(statsDict) |-> statsDict[i].name],
     rows |-> <<Row(key, modelName, [i \in 1..Len(statsDict) |-> statsDict[i].value])>>]

\* Whether row r is to be placed before row q when sorting by the column at pos:
\* NaN comes last and rows of equal value keep their order
SortsBefore(r, q, pos, ascending) ==
    IF r.values[pos].kind = "nan" THEN FALSE
    ELSE IF q.values[pos].kind = "nan" THEN TRUE
    ELSE IF ascending THEN FracLess(r.values[pos], q.values[pos])
         ELSE FracLess(q.values[pos], r.values[pos])

\* The row inserted into the sorted rows behind all rows it does not sort before
InsertSorted(sorted, r, pos, ascending) ==
    LET before == {i \in 1..Len(sorted) : SortsBefore(r, sorted[i], pos, ascending)}
        at == IF before = {} THEN Len(sorted) + 1
              ELSE CHOOSE i \in before : \A j \in before : i <= j
    IN SubSeq(sorted, 1, at - 1) \o <<r>> \o SubSeq(sorted, at, Len(sorted))

RECURSIVE SortLoop(_, _, _, _)
SortLoop(rows, sorted, pos, ascending) ==
    IF rows = <<>> THEN sorted
    ELSE SortLoop(Tail(rows), InsertSorted(sorted, Head(rows), pos, ascending), pos, ascending)

\* df.sort_values(column, ascending=ascending)
SortValues(df, column, ascending) ==
    [df EXCEPT !.rows = SortLoop(df.rows, <<>>, ColumnPos(df.columns, column), ascending)]

----------------------------------------------------------------------------
(* EvaluationUtil.compareModels *)

\* The state of the loop over the models
CompareState(i, exc, resultsDF, resultByModelName, log) ==
    [i |-> i, raised |-> exc, resultsDF |-> resultsDF,
     resultByModelName |-> resultByModelName, log |-> log]

\* The end of the loop body for the evaluation result r of the model: the model's
\* result and its metrics (with the model name) are recorded, the visitors called
RecordModelResult(st, model, dataset, visitors, r) ==
    CompareState(st.i + 1, "",
        Concat(st.resultsDF, FrameOfDict(0, model.name, r.statsDict)),
        DictSet(st.resultByModelName, model.name, r.evalStats),
        IF visitors.isNone THEN r.log
        ELSE VisitLoop(visitors.items, 1, model, dataset, r.log))

\* The body of the loop for one model
CompareModelsStep(st, model, dataset, useCrossValidation, fitModels, visitors) ==
    IF useCrossValidation
    THEN IF ~fitModels
         THEN [st EXCEPT !.raised = "ValueError"]
         ELSE RecordModelResult(st, model, dataset, visitors,
                                performCrossValidation(model, dataset, st.log))
    ELSE RecordModelResult(st, model, dataset, visitors,
                           performSimpleEvaluation(model, dataset, fitModels, st.log))

RECURSIVE CompareModelsLoop(_, _, _, _, _, _)
\* for model in models: ...
CompareModelsLoop(st, models, dataset, useCrossValidation, fitModels, visitors) ==
    IF st.i > Len(models) \/ st.raised # "" THEN st
    ELSE CompareModelsLoop(
             CompareModelsStep(st, models[st.i], dataset, useCrossValidation, fitModels, visitors),
             models, dataset, useCrossValidation, fitModels, visitors)

\* The part of compareModels after the loop: the data frame of the metrics indexed
\* by model name (there is no column modelName without models), sorted if asked to
CompareModelsResult(st, sortColumn, sortAscending) ==
    IF st.raised # "" THEN st
    ELSE IF st.resultsDF.rows = <<>> THEN [st EXCEPT !.raised = "KeyError"]
    ELSE IF sortColumn # "None" /\ ColumnPos(st.resultsDF.columns, sortColumn) # 0
    THEN [st EXCEPT !.resultsDF = SortValues(@, sortColumn, sortAscending)]
    ELSE st

\* EvaluationUtil.compareModels(models, useCrossValidation, fitModels, sortColumn,
\* sortAscending, visitors) on the util of the data set: [raised, resultsDF,
\* resultByModelName, log]
EvaluationUtilCompareModels(models, dataset, useCrossValidation, fitModels, sortColumn, sortAscending, visitors, log) ==
    CompareModelsResult(
        CompareModelsLoop(CompareState(1, "", EmptyDF, <<>>, log),
                          models, dataset, useCrossValidation, fitModels, visitors),
        sortColumn, sortAscending)

----------------------------------------------------------------------------
(* MultiDataEvaluationUtil.compareModels *)

NoneBool == [isNone |-> TRUE, value |-> FALSE]
SomeBool(b) == [isNone |-> FALSE, value |-> b]

\* A faulty variant of the creation below: the models of the first data set are
\* used again for the other data sets
CreateModelsOnce(modelFactories, dataset) ==
    [f \in 1..Len(modelFactories) |-> CreateModel(modelFactories[f], f, 1)]

\* models = [f() for f in modelFactories], for the data set with the given number
CreateModels(modelFactories, dataset) ==
    [f \in 1..Len(modelFactories) |-> CreateModel(modelFactories[f], f, dataset)]

\* if isRegression is None: all(...) -> True, not any(...) -> False, else ValueError:
\* [raised, isRegression]
MixtureCheck(isRegression, models) ==
    IF ~isRegression.isNone THEN [raised |-> "", isRegression |-> isRegression]
    ELSE IF \A i \in 1..Len(models) : models[i].isRegression
    THEN [raised |-> "", isRegression |-> SomeBool(TRUE)]
    ELSE IF ~\E i \in 1..Len(models) : models[i].isRegression
    THEN [raised |-> "", isRegression |-> SomeBool(FALSE)]
    ELSE [raised |-> "ValueError", isRegression |-> isRegression]

\* df[self.keyName] = key
WithKey(df, key) == [df EXCEPT !.rows = [i \in 1..Len(df.rows) |-> [df.rows[i] EXCEPT !.key = key]]]

\* The list evalStatsByModelName[modelName]
DictList(d, name) ==
    IF \E i \in 1..Len(d) : d[i].name = name
    THEN (CHOOSE x \in {d[i] : i \in 1..Len(d)} : x.name = name).value
    ELSE <<>>

RECURSIVE CollectEvalStats(_, _, _)
\* for modelName, result in comparisonData.resultByModelName.items():
\*     evalStatsByModelName[modelName].append(evalStats)
CollectEvalStats(evalStatsByModelName, resultByModelName, i) ==
    IF i > Len(resultByModelName) THEN evalStatsByModelName
    ELSE CollectEvalStats(
             DictSet(evalStatsByModelName, resultByModelName[i].name,
                     Append(DictList(evalStatsByModelName, resultByModelName[i].name),
                            resultByModelName[i].value)),
             resultByModelName, i + 1)

\* The state of the loop over the data sets
MultiState(d, exc, isRegression, allResultsDF, evalStatsByModelName, log) ==
    [d |-> d, raised |-> exc, isRegression |-> isRegression, allResultsDF |-> allResultsDF,
     evalStatsByModelName |-> evalStatsByModelName, log |-> log]

\* The end of the loop body, for the comparison data r of the data set
CollectDataSetResults(st, isRegression, r) ==
    IF r.raised # ""
    THEN MultiState(st.d, r.raised, isRegression, st.allResultsDF, st.evalStatsByModelName, r.log)
    ELSE MultiState(st.d + 1, "", isRegression,
                    Concat(st.allResultsDF, WithKey(r.resultsDF, st.d)),
                    CollectEvalStats(st.evalStatsByModelName, r.resultByModelName, 1),
                    r.log)

\* The loop body after the creation of the models: the check of the model types
\* (result c) and the comparison of the models on the data set
CompareOnDataSet(st, models, c, useCrossValidation, visitors, log) ==
    IF c.raised # ""
    THEN MultiState(st.d, c.raised, st.isRegression, st.allResultsDF, st.evalStatsByModelName, log)
    ELSE CollectDataSetResults(st, c.isRegression,
             EvaluationUtilCompareModels(models, st.d, useCrossValidation, TRUE,
                                         "None", TRUE, visitors, log))

\* The loop body for the data set st.d with the models created for it
MultiStep(st, models, useCrossValidation, visitors) ==
    CompareOnDataSet(st, models, MixtureCheck(st.isRegression, models),
                     useCrossValidation, visitors,
                     st.log \o [f \in 1..Len(models) |-> Event("create", models[f], st.d)])

RECURSIVE MultiLoop(_, _, _, _, _)
\* for i, (key, inputOutputData) in enumerate(self.inputOutputDataDict.items(), start=1)
MultiLoop(st, modelFactories, numDataSets, useCrossValidation, visitors) ==
    IF st.d > numDataSets \/ st.raised # "" THEN st
    ELSE MultiLoop(MultiStep(st, CreateModels(modelFactories, st.d), useCrossValidation, visitors),
                   modelFactories, numDataSets, useCrossValidation, visitors)

\* The columns without NaN in any row
ColumnsWithoutNaN(df) ==
    SelectSeq(df.columns,
              LAMBDA c : \A i \in 1..Len(df.rows) :
                            df.rows[i].values[ColumnPos(df.columns, c)].kind # "nan")

\* A faulty variant of dropna below: keeps every column
DropNaMutant(df) == df

\* df.dropna(axis=1)
DropNa(df) ==
    [columns |-> ColumnsWithoutNaN(df),
     rows |-> [i \in 1..Len(df.rows) |-> Realign(df.rows[i], df.columns, ColumnsWithoutNaN(df))]]

\* The keys of groupby("modelName"): the model names in sorted order
GroupKeys(df) ==
    SelectSeq(NameOrder, LAMBDA n : \E i \in 1..Len(df.rows) : df.rows[i].modelName = n)

\* The values of a column in the rows of a model
GroupValues(df, name, pos) ==
    LET rows == SelectSeq(df.rows, LAMBDA r : r.modelName = name)
    IN [i \in 1..Len(rows) |-> rows[i].values[pos]]

FracAdd(x, y) == Frac(x.num * y.den + y.num * x.den, x.den * y.den)

RECURSIVE SumValues(_)
SumValues(values) ==
    IF values = <<>> THEN Frac(0, 1) ELSE FracAdd(Head(values), SumValues(Tail(values)))

RECURSIVE MinValue(_)
MinValue(values) ==
    IF Len(values) = 1 THEN values[1]
    ELSE IF FracLess(MinValue(Tail(values)), Head(values)) THEN MinValue(Tail(values))
    ELSE Head(values)

RECURSIVE MaxValue(_)
MaxValue(values) ==
    IF Len(values) = 1 THEN values[1]
    ELSE IF FracLess(Head(values), MaxValue(Tail(values))) THEN MaxValue(Tail(values))
    ELSE Head(values)

\* x.mean(), x.std(), x.min(), x.max() of the values of a group (all of them skip
\* NaN); the standard deviation is left to the library, it is NaN for a single value
Aggregate(opName, values) ==
    LET numbers == SelectSeq(values, LAMBDA v : v.kind # "nan")
    IN IF numbers = <<>> THEN NaN
       ELSE CASE opName = "mean" ->
                    Frac(SumValues(numbers).num, SumValues(numbers).den * Len(numbers))
              [] opName = "std" -> IF Len(numbers) = 1 THEN NaN ELSE ExternalValue
              [] opName = "min" -> MinValue(numbers)
              [] opName = "max" -> MaxValue(numbers)

\* The numeric columns of the grouped frame are the metrics; min and max also
\* aggregate the column of the data set keys
AggColumns(opName, grouped) ==
    grouped.columns \o (IF opName \in {"min", "max"} THEN <<"dataset">> ELSE <<>>)

\* aggFn(allResultsGrouped) for the metrics: one row per model name, in sorted order
AggFrame(opName, grouped) ==
    [columns |-> grouped.columns,
     rows |-> [g \in 1..Len(GroupKeys(grouped)) |->
                  Row(0, GroupKeys(grouped)[g],
                      [j \in 1..Len(grouped.columns) |->
                          Aggregate(opName, GroupValues(grouped, GroupKeys(grouped)[g], j))])]]

\* A faulty variant of the sort direction below: ascending for rankMax
RankAscendingMutant(rankMax) == rankMax

\* ascending=not rankMax
RankAscending(rankMax) == ~rankMax

\* if columnNameForModelRanking in meanResultsDF: meanResultsDF.sort_values(...)
RankModels(meanResultsDF, columnNameForModelRanking, rankMax) ==
    IF columnNameForModelRanking # "None"
          /\ ColumnPos(meanResultsDF.columns, columnNameForModelRanking) # 0
    THEN SortValues(meanResultsDF, columnNameForModelRanking, RankAscending(rankMax))
    ELSE meanResultsDF

AggOps == <<"mean", "std", "min", "max">>

Min(a, b) == IF a < b THEN a ELSE b

\* columnOrder: the columns of the four aggregations, zipped; zip stops with the
\* shortest list of columns
ColumnOrder(grouped) ==
    LET n == Min(Min(Len(AggColumns("mean", grouped)), Len(AggColumns("std", grouped))),
                 Min(Len(AggColumns("min", grouped)), Len(AggColumns("max", grouped))))
    IN [i \in 1..(4 * n) |->
           [op |-> AggOps[((i - 1) % 4) + 1],
            column |-> AggColumns(AggOps[((i - 1) % 4) + 1], grouped)[((i - 1) \div 4) + 1]]]

\* furtherAggsDF: the columns opName[c] in columnOrder, the rows in the order of
\* the index of meanResultsDF
FurtherAggs(grouped, meanResultsDF, columnOrder) ==
    [columns |-> columnOrder,
     rows |-> [g \in 1..Len(meanResultsDF.rows) |->
                  Row(0, meanResultsDF.rows[g].modelName,
                      [i \in 1..Len(columnOrder) |->
                          Aggregate(columnOrder[i].op,
                                    GroupValues(grouped, meanResultsDF.rows[g].modelName,
                                                ColumnPos(grouped.columns, columnOrder[i].column)))])]]

NoComparisonData ==
    [allResultsDF |-> EmptyDF, meanResultsDF |-> EmptyDF, furtherAggsDF |-> EmptyDF,
     evalStatsByModelName |-> <<>>, resultsDF |-> EmptyDF, resultByModelName |-> <<>>,
     isRegression |-> NoneBool]

\* The frames of the comparison data, given the mean results in ranked order
MultiComparisonData(st, grouped, meanResultsDF) ==
    [raised |-> "", log |-> st.log,
     data |-> [NoComparisonData EXCEPT
                  !.allResultsDF = st.allResultsDF,
                  !.meanResultsDF = meanResultsDF,
                  !.furtherAggsDF = FurtherAggs(grouped, meanResultsDF, ColumnOrder(grouped)),
                  !.evalStatsByModelName = st.evalStatsByModelName,
                  !.isRegression = st.isRegression]]

\* The part of compareModels after the loop, for the frame grouped by model name:
\* without a numeric column the aggregation fails in the library
AggregateResults(st, grouped, columnNameForModelRanking, rankMax) ==
    IF grouped.columns = <<>>
    THEN [raised |-> "NoNumericColumns", log |-> st.log, data |-> NoComparisonData]
    ELSE MultiComparisonData(st, grouped,
             RankModels(AggFrame("mean", grouped), columnNameForModelRanking, rankMax))

\* The part of compareModels after the loop: without data sets there is no column
\* modelName to group by
MultiResult(st, columnNameForModelRanking, rankMax) ==
    IF st.raised # ""
    THEN [raised |-> st.raised, log |-> st.log, data |-> NoComparisonData]
    ELSE IF st.allResultsDF.rows = <<>>
    THEN [raised |-> "KeyError", log |-> st.log, data |-> NoComparisonData]
    ELSE AggregateResults(st, DropNa(st.allResultsDF), columnNameForModelRanking, rankMax)

\* MultiDataEvaluationUtil.compareModels(modelFactories, useCrossValidation,
\* columnNameForModelRanking, rankMax, visitors) over the data sets 1..numDataSets:
\* [raised, log, data]
MultiDataCompareModels(modelFactories, numDataSets, useCrossValidation, columnNameForModelRanking, rankMax, visitors) ==
    MultiResult(
        MultiLoop(MultiState(1, "", NoneBool, EmptyDF, <<>>, <<>>),
                  modelFactories, numDataSets, useCrossValidation, visitors),
        columnNameForModelRanking, rankMax)

----------------------------------------------------------------------------
(* Inputs of the comparisons *)

\* Factories of regression models with fixed names; the metrics A and B of their
\* models are numbers, NaN or absent, depending on the data set
MetricFactories ==
    {ModelFactory("a", "a", TRUE, TRUE, "one", "two"),
     ModelFactory("b", "b", TRUE, TRUE, "count", "one"),
     ModelFactory("b", "b", TRUE, TRUE, "nanLater", "one"),
     ModelFactory("c", "c", TRUE, TRUE, "two", "absentLater"),
     ModelFactory("a", "a", TRUE, TRUE, "absent", "count"),
     ModelFactory("c", "c", TRUE, TRUE, "nan", "countdown")}

\* A factory of classification models, a factory whose models are regression
\* models at the first call and classification models later, and a factory whose
\* models change their name
TypeFactories ==
    {ModelFactory("d", "d", FALSE, FALSE, "one", "two"),
     ModelFactory("e", "e", TRUE, FALSE, "two", "one"),
     ModelFactory("d", "e", TRUE, TRUE, "one", "one")}

FactorySeqs == SeqsUpTo(MetricFactories \cup TypeFactories, MaxFactories)

CompareArgs(method, modelFactories, numDataSets, useCrossValidation, fitModels, column, maxOrAscending, visitors) ==
    [method |-> method, modelFactories |-> modelFactories, numDataSets |-> numDataSets,
     useCrossValidation |-> useCrossValidation, fitModels |-> fitModels,
     column |-> column, maxOrAscending |-> maxOrAscending, visitors |-> visitors]

\* MultiDataEvaluationUtil(inputOutputDataDict).compareModels(modelFactories,
\* useCrossValidation, columnNameForModelRanking=column, rankMax=maxOrAscending,
\* visitors) with numDataSets data sets
MultiInputs ==
    {CompareArgs("multi", fs, k, cv, TRUE, rank[1], rank[2], SomeList(<<"visitor">>)) :
        fs \in FactorySeqs, k \in 0..MaxDataSets, cv \in BOOLEAN,
        rank \in {<<"None", TRUE>>, <<"A", TRUE>>, <<"A", FALSE>>}}

\* EvaluationUtil(data).compareModels(models, useCrossValidation, fitModels,
\* sortColumn=column, sortAscending=maxOrAscending, visitors) with the models that
\* the factories create
DirectInputs ==
    {CompareArgs("direct", fs, 1, cv, fit, sort[1], sort[2], vs) :
        fs \in FactorySeqs, cv \in BOOLEAN, fit \in BOOLEAN,
        sort \in {<<"None", TRUE>>, <<"A", TRUE>>, <<"A", FALSE>>},
        vs \in {NoneList, SomeList(<<"visitor">>)}}

IdleCompareArgs == CompareArgs("none", <<>>, 0, FALSE, TRUE, "None", TRUE, NoneList)

----------------------------------------------------------------------------
(* The comparison operations *)

CompareInit ==
    /\ cmpArgs \in MultiInputs \cup DirectInputs
    /\ cmpCall = "none"
    /\ cmpRaised = ""
    /\ cmpLog = <<>>
    /\ cmpResult = NoComparisonData

\* No comparison takes place
CompareIdle ==
    /\ cmpArgs = IdleCompareArgs
    /\ cmpCall = "none"
    /\ cmpRaised = ""
    /\ cmpLog = <<>>
    /\ cmpResult = NoComparisonData

\* The exceptions a failure can surface as: the aggregation of a frame without
\* numeric columns fails in pandas or in functools.reduce, depending on the version
RaisedAs(exc) ==
    IF exc = "NoNumericColumns" THEN {"DataError", "TypeError"} ELSE {exc}

\* MultiDataEvaluationUtil.compareModels(...)
MultiCompareModels ==
    /\ cmpCall = "none"
    /\ cmpArgs.method = "multi"
    /\ \E r \in {MultiDataCompareModels(cmpArgs.modelFactories, cmpArgs.numDataSets,
                                        cmpArgs.useCrossValidation, cmpArgs.column,
                                        cmpArgs.maxOrAscending, cmpArgs.visitors)} :
          /\ cmpRaised' \in RaisedAs(r.raised)
          /\ cmpLog' = r.log
          /\ cmpResult' = r.data
    /\ cmpCall' = "MultiDataEvaluationUtil.compareModels"
    /\ UNCHANGED cmpArgs
    /\ UNCHANGED outsideCompare

\* EvaluationUtil.compareModels(...)
CompareModels ==
    /\ cmpCall = "none"
    /\ cmpArgs.method = "direct"
    /\ \E r \in {EvaluationUtilCompareModels(CreateModels(cmpArgs.modelFactories, 1), 1,
                                             cmpArgs.useCrossValidation, cmpArgs.fitModels,
                                             cmpArgs.column, cmpArgs.maxOrAscending,
                                             cmpArgs.visitors, <<>>)} :
          /\ cmpRaised' = r.raised
          /\ cmpLog' = r.log
          /\ cmpResult' = IF r.raised # "" THEN NoComparisonData
                          ELSE [NoComparisonData EXCEPT
                                   !.resultsDF = r.resultsDF,
                                   !.resultByModelName = r.resultByModelName]
    /\ cmpCall' = "EvaluationUtil.compareModels"
    /\ UNCHANGED cmpArgs
    /\ UNCHANGED outsideCompare

CompareNext ==
    \/ MultiCompareModels
    \/ CompareModels

----------------------------------------------------------------------------
(* The eval stats operations.  Every operation is a function of the object, *)
(* which after construction changes only by filling the cache of the         *)
(* threshold variation data; the operations are therefore explored on the    *)
(* fresh object and on the object with the cache filled.                     *)

Callable == es.constructed /\ lastCall.op \in {"__init__", "getVarData"}

StatsInit ==
    /\ ctorArgs \in GuessInputs \cup SweepInputs \cup MetricsInputs
    /\ es = NoEvalStats
    /\ lastCall = NoCall
    /\ raised = ""
    /\ dictResult = <<>>
    /\ valueResult = NoValue
    /\ computeLog = {}

\* ClassificationEvalStats(y_predicted, y_true, y_predictedClassProbabilities, labels, ...)
Construct ==
    /\ lastCall.op = "none"
    /\ \E r \in {ClassificationEvalStatsInit(ctorArgs)} :
          /\ es' = r.es
          /\ raised' = r.raised
    /\ lastCall' = [NoCall EXCEPT !.op = "__init__"]
    /\ UNCHANGED <<ctorArgs, dictResult, valueResult, computeLog>>
    /\ UNCHANGED outsideStats

\* evalStats.getBinaryClassificationProbabilityThresholdVariationData()
GetVarData ==
    /\ es.constructed /\ lastCall.op = "__init__"
    /\ \E r \in {getBinaryClassificationProbabilityThresholdVariationData(es)} :
          /\ es' = r.es
          /\ raised' = r.raised
    /\ lastCall' = [NoCall EXCEPT !.op = "getVarData"]
    /\ dictResult' = <<>>
    /\ valueResult' = NoValue
    /\ computeLog' = {}
    /\ UNCHANGED ctorArgs
    /\ UNCHANGED outsideStats

\* metric.computeValueForEvalStats(evalStats)
ComputeValueForEvalStats ==
    /\ Callable
    /\ \E m \in CallMetrics :
          \E r \in {computeValueForEvalStats(m, es, {})} :
             /\ es' = r.es
             /\ raised' = r.raised
             /\ valueResult' = r.value
             /\ computeLog' = r.log
             /\ lastCall' = [op |-> "computeValueForEvalStats", metric |-> m,
                             probsIsNone |-> es.y_predictedClassProbabilities.isNone]
    /\ dictResult' = <<>>
    /\ UNCHANGED ctorArgs
    /\ UNCHANGED outsideStats

\* metric.computeValue(y_true, y_predicted[, y_predictedClassProbabilities])
ComputeValue ==
    /\ Callable
    /\ \E m \in CallMetrics, probsIsNone \in BOOLEAN :
          \E r \in {computeValue(m, probsIsNone, {})} :
             /\ raised' = r.raised
             /\ valueResult' = r.value
             /\ computeLog' = r.log
             /\ lastCall' = [op |-> "computeValue", metric |-> m, probsIsNone |-> probsIsNone]
    /\ dictResult' = <<>>
    /\ UNCHANGED <<ctorArgs, es>>
    /\ UNCHANGED outsideStats

\* evalStats.metricsDict()
MetricsDict ==
    /\ Callable
    /\ \E r \in {metricsDict(es, {})} :
          /\ es' = r.es
          /\ raised' = r.raised
          /\ dictResult' = IF r.raised = "" THEN r.d ELSE <<>>
          /\ computeLog' = r.log
    /\ lastCall' = [NoCall EXCEPT !.op = "metricsDict"]
    /\ valueResult' = NoValue
    /\ UNCHANGED ctorArgs
    /\ UNCHANGED outsideStats

StatsNext ==
    \/ Construct
    \/ GetVarData
    \/ ComputeValueForEvalStats
    \/ ComputeValue
    \/ MetricsDict

\* No eval stats operation takes place
StatsIdle ==
    /\ ctorArgs = CtorArgs(<<>>, NoneDF, <<>>, NoneList, NoneList, GUESS)
    /\ es = NoEvalStats
    /\ lastCall = [NoCall EXCEPT !.op = "idle"]
    /\ raised = ""
    /\ dictResult = <<>>
    /\ valueResult = NoValue
    /\ computeLog = {}

----------------------------------------------------------------------------
(* Data sets and DataSplitterFractional (data.py)                          *)

\* InputOutputData: the sequence of its data points; None is NoData
NoData == [isNone |-> TRUE, points |-> <<>>]

InputOutputData(points) == [isNone |-> FALSE, points |-> points]

\* A data set of n data points; the data point at position i (from 0) is 100 + i
DataOfSize(n) == InputOutputData([i \in 1..n |-> 99 + i])

\* InputOutputData.filterIndices(indices): the data points at the positions
filterIndices(data, indices) ==
    InputOutputData([i \in 1..Len(indices) |-> data.points[indices[i] + 1]])

\* The value of a fraction argument: None, or the float num / den (den > 0)
NoFraction == [isNone |-> TRUE, neg |-> FALSE, int |-> 0, frac |-> <<>>]

Fraction(num, den) == FloatOf(num, den)

\* 1 - self._fractionalSplitTestFraction
OneMinus(f) == FloatOneMinus(f)

\* The values of a data splitter attribute: None, a DataSplitterFractional, or
\* the dictionary of old-style keyword arguments
NoSplitter ==
    [kind |-> "None", fractionalSizeOfFirstSet |-> NoFraction, shuffle |-> FALSE, randomSeed |-> 0]

DictAsSplitter ==
    [kind |-> "dict", fractionalSizeOfFirstSet |-> NoFraction, shuffle |-> FALSE, randomSeed |-> 0]

DataSplitterFractional(fractionalSizeOfFirstSet, shuffle, randomSeed) ==
    [kind |-> "DataSplitterFractional", fractionalSizeOfFirstSet |-> fractionalSizeOfFirstSet,
     shuffle |-> shuffle, randomSeed |-> randomSeed]

\* if not 0 <= fractionalSizeOfFirstSet <= 1: raise Exception(...): the exception
\* that is raised, "" if none; the comparison of 0 with None raises TypeError
FractionCheck(f) ==
    IF f.isNone THEN "TypeError"
    ELSE IF FloatLess(f, Float(FALSE, 0, <<>>)) \/ FloatLess(Float(FALSE, 1, <<>>), f)
    THEN "Exception"
    ELSE ""

\* DataSplitterFractional.__init__: [raised, splitter]
DataSplitterFractionalInit(fractionalSizeOfFirstSet, shuffle, randomSeed) ==
    IF FractionCheck(fractionalSizeOfFirstSet) # ""
    THEN [raised |-> FractionCheck(fractionalSizeOfFirstSet), splitter |-> NoSplitter]
    ELSE [raised |-> "",
          splitter |-> DataSplitterFractional(fractionalSizeOfFirstSet, shuffle, randomSeed)]

\* The values np.random.RandomState(randomSeed).permutation(n) can have: the
\* arrangements of 0..n-1
PermutationsOf(n) ==
    {p \in [1..n -> 0..(n - 1)] : \A i, j \in 1..n : p[i] = p[j] => i = j}

\* A faulty variant of the index computation below: rounds up
SplitIndexCeil(numDataPoints, f) ==
    FloatTrunc(FloatTimes(numDataPoints, f))
        + (IF Len(FloatTimes(numDataPoints, f).frac) > 0 THEN 1 ELSE 0)

\* int(numDataPoints * self.fractionalSizeOfFirstSet)
SplitIndex(numDataPoints, f) == FloatTrunc(FloatTimes(numDataPoints, f))

\* indices[:splitIndex] and indices[splitIndex:] of the data
SplitAt(data, indices, splitIndex) ==
    [A |-> filterIndices(data, SubSeq(indices, 1, splitIndex)),
     B |-> filterIndices(data, SubSeq(indices, splitIndex + 1, Len(indices)))]

\* No pair (A, B)
NoSplit == [A |-> NoData, B |-> NoData]

\* DataSplitterFractional.split(data), where permutation is the value of
\* rand.permutation(numDataPoints): [raised, parts], the parts being (A, B);
\* len(data) raises TypeError if the data is None
split(splitter, data, permutation) ==
    IF data.isNone THEN [raised |-> "TypeError", parts |-> NoSplit]
    ELSE [raised |-> "",
          parts |-> SplitAt(data,
                            IF splitter.shuffle THEN permutation
                            ELSE [i \in 1..Len(data.points) |-> i - 1],
                            SplitIndex(Len(data.points), splitter.fractionalSizeOfFirstSet))]

----------------------------------------------------------------------------
(* Evaluator parameters and evaluators (evaluation/evaluator.py)           *)

\* The parameter objects; None is NoParams. An attribute that a class does not
\* have is "absent"; the booleans of computeProbabilities are "True" and "False"
EvaluatorParams(cls, dataSplitter, fractionalSplitTestFraction, fractionalSplitRandomSeed, fractionalSplitShuffle, additionalMetrics, computeProbabilities, outputDataFrameTransformer) ==
    [cls |-> cls, dataSplitter |-> dataSplitter,
     fractionalSplitTestFraction |-> fractionalSplitTestFraction,
     fractionalSplitRandomSeed |-> fractionalSplitRandomSeed,
     fractionalSplitShuffle |-> fractionalSplitShuffle,
     additionalMetrics |-> additionalMetrics,
     computeProbabilities |-> computeProbabilities,
     outputDataFrameTransformer |-> outputDataFrameTransformer]

NoParams == EvaluatorParams("None", NoSplitter, NoFraction, 0, FALSE, "None", "absent", "absent")

\* VectorRegressionModelEvaluatorParams.__init__
VectorRegressionModelEvaluatorParams(dataSplitter, fractionalSplitTestFraction, fractionalSplitRandomSeed, fractionalSplitShuffle, additionalMetrics, outputDataFrameTransformer) ==
    EvaluatorParams("VectorRegressionModelEvaluatorParams", dataSplitter,
                    fractionalSplitTestFraction, fractionalSplitRandomSeed,
                    fractionalSplitShuffle, additionalMetrics, "absent",
                    outputDataFrameTransformer)

\* VectorClassificationModelEvaluatorParams.__init__
VectorClassificationModelEvaluatorParams(dataSplitter, fractionalSplitTestFraction, fractionalSplitRandomSeed, fractionalSplitShuffle, additionalMetrics, computeProbabilities) ==
    EvaluatorParams("VectorClassificationModelEvaluatorParams", dataSplitter,
                    fractionalSplitTestFraction, fractionalSplitRandomSeed,
                    fractionalSplitShuffle, additionalMetrics, computeProbabilities,
                    "absent")

\* fractionalSplitRandomSeed=42, the default of the parameter classes
DefaultRandomSeed == 42

\* A dictionary of keyword arguments: its keys, and the value of each key it has
KwArgs(keys, dataSplitter, testFraction, randomSeed, computeProbabilities, shuffle, additionalMetrics, outputDataFrameTransformer) ==
    [keys |-> keys, dataSplitter |-> dataSplitter, testFraction |-> testFraction,
     randomSeed |-> randomSeed, computeProbabilities |-> computeProbabilities,
     shuffle |-> shuffle, additionalMetrics |-> additionalMetrics,
     outputDataFrameTransformer |-> outputDataFrameTransformer]

\* The empty dictionary
NoKwArgs == KwArgs({}, NoSplitter, NoFraction, DefaultRandomSeed, "False", TRUE, "None", "None")

\* The value a keyword parameter receives from f(**kwArgs): that of the key, or
\* the parameter's default
KwArg(kwArgs, key, default) == IF key \in kwArgs.keys THEN kwArgs[key] ELSE default

\* VectorRegressionModelEvaluatorParams.fromOldKwArgs
RegressionFromOldKwArgs(dataSplitter, testFraction, randomSeed, shuffle, additionalMetrics, outputDataFrameTransformer) ==
    VectorRegressionModelEvaluatorParams(dataSplitter, testFraction, randomSeed, shuffle,
                                         additionalMetrics, outputDataFrameTransformer)

\* VectorRegressionModelEvaluatorParams.fromOldKwArgs(**kwArgs): [raised, params]
RegressionFromOldKwArgsExpanded(kwArgs) ==
    IF ~(kwArgs.keys \subseteq {"dataSplitter", "testFraction", "randomSeed", "shuffle",
                                "additionalMetrics", "outputDataFrameTransformer"})
    THEN [raised |-> "TypeError", params |-> NoParams]
    ELSE [raised |-> "",
          params |-> RegressionFromOldKwArgs(
                         KwArg(kwArgs, "dataSplitter", NoSplitter),
                         KwArg(kwArgs, "testFraction", NoFraction),
                         KwArg(kwArgs, "randomSeed", DefaultRandomSeed),
                         KwArg(kwArgs, "shuffle", TRUE),
                         KwArg(kwArgs, "additionalMetrics", "None"),
                         KwArg(kwArgs, "outputDataFrameTransformer", "None"))]

\* VectorClassificationModelEvaluatorParams.fromOldKwArgs
ClassificationFromOldKwArgs(dataSplitter, testFraction, randomSeed, computeProbabilities, shuffle, additionalMetrics) ==
    VectorClassificationModelEvaluatorParams(dataSplitter, testFraction, randomSeed, shuffle,
                                             additionalMetrics, computeProbabilities)

\* VectorClassificationModelEvaluatorParams.fromOldKwArgs(**kwArgs): [raised, params]
ClassificationFromOldKwArgsExpanded(kwArgs) ==
    IF ~(kwArgs.keys \subseteq {"dataSplitter", "testFraction", "randomSeed",
                                "computeProbabilities", "shuffle", "additionalMetrics"})
    THEN [raised |-> "TypeError", params |-> NoParams]
    ELSE [raised |-> "",
          params |-> ClassificationFromOldKwArgs(
                         KwArg(kwArgs, "dataSplitter", NoSplitter),
                         KwArg(kwArgs, "testFraction", NoFraction),
                         KwArg(kwArgs, "randomSeed", DefaultRandomSeed),
                         KwArg(kwArgs, "computeProbabilities", "False"),
                         KwArg(kwArgs, "shuffle", TRUE),
                         KwArg(kwArgs, "additionalMetrics", "None"))]

\* VectorRegressionModelEvaluator._createParams: [raised, params]
RegressionCreateParams(params, kwArgsOldParams) ==
    IF params.cls # "None" THEN [raised |-> "", params |-> params]
    ELSE IF kwArgsOldParams.keys # {} THEN RegressionFromOldKwArgsExpanded(kwArgsOldParams)
    ELSE [raised |-> "",
          params |-> VectorRegressionModelEvaluatorParams(NoSplitter, NoFraction,
                         DefaultRandomSeed, TRUE, "None", "None")]

\* VectorClassificationModelEvaluator._createParams: [raised, params]. The
\* dictionary is passed to fromOldKwArgs as its first positional argument,
\* dataSplitter
ClassificationCreateParams(params, kwArgs) ==
    IF params.cls # "None" THEN [raised |-> "", params |-> params]
    ELSE IF kwArgs.keys # {}
    THEN [raised |-> "",
          params |-> ClassificationFromOldKwArgs(DictAsSplitter, NoFraction,
                         DefaultRandomSeed, "False", TRUE, "None")]
    ELSE [raised |-> "",
          params |-> VectorClassificationModelEvaluatorParams(NoSplitter, NoFraction,
                         DefaultRandomSeed, TRUE, "None", "False")]

\* VectorModelEvaluatorParams.getDataSplitter: [raised, params, dataSplitter];
\* the splitter it creates is kept in the parameter object
getDataSplitter(params) ==
    IF params.dataSplitter.kind # "None"
    THEN [raised |-> "", params |-> params, dataSplitter |-> params.dataSplitter]
    ELSE IF params.fractionalSplitTestFraction.isNone
    THEN [raised |-> "ValueError", params |-> params, dataSplitter |-> NoSplitter]
    ELSE LET c == DataSplitterFractionalInit(OneMinus(params.fractionalSplitTestFraction),
                                             params.fractionalSplitShuffle,
                                             params.fractionalSplitRandomSeed)
         IN [raised |-> c.raised,
             params |-> IF c.raised = "" THEN [params EXCEPT !.dataSplitter = c.splitter]
                        ELSE params,
             dataSplitter |-> c.splitter]

\* An evaluator; constructed = FALSE if there is none
Evaluator(constructed, cls, trainingData, testData, params) ==
    [constructed |-> constructed, cls |-> cls, trainingData |-> trainingData,
     testData |-> testData, params |-> params]

NoEvaluator == Evaluator(FALSE, "None", NoData, NoData, NoParams)

\* The evaluator with the data of the split, for the outcome s of
\* dataSplitter.split(data); the percentages of the log message divide by len(data)
EvaluatorOfSplit(cls, data, s, params) ==
    IF s.raised # "" THEN [raised |-> s.raised, evaluator |-> NoEvaluator]
    ELSE IF Len(data.points) = 0
    THEN [raised |-> "ZeroDivisionError", evaluator |-> NoEvaluator]
    ELSE [raised |-> "", evaluator |-> Evaluator(TRUE, cls, s.parts.A, s.parts.B, params)]

\* The split of the data by the splitter that getDataSplitter returned (g)
EvaluatorOfSplitter(cls, data, g, permutation) ==
    IF g.raised # "" THEN [raised |-> g.raised, evaluator |-> NoEvaluator]
    ELSE IF g.dataSplitter.kind = "dict"
    THEN [raised |-> "AttributeError", evaluator |-> NoEvaluator]
    ELSE EvaluatorOfSplit(cls, data, split(g.dataSplitter, data, permutation), g.params)

\* VectorModelEvaluator.__init__(data, testData, params), followed by
\* self.params = params: [raised, evaluator]
VectorModelEvaluatorInit(cls, data, testData, params, permutation) ==
    IF testData.isNone
    THEN IF params.cls = "None" THEN [raised |-> "ValueError", evaluator |-> NoEvaluator]
         ELSE EvaluatorOfSplitter(cls, data, getDataSplitter(params), permutation)
    ELSE [raised |-> "", evaluator |-> Evaluator(TRUE, cls, data, testData, params)]

\* The constructor of an evaluator class with the parameters that _createParams
\* returned (c)
EvaluatorWithParams(cls, data, testData, c, permutation) ==
    IF c.raised # "" THEN [raised |-> c.raised, evaluator |-> NoEvaluator]
    ELSE VectorModelEvaluatorInit(cls, data, testData, c.params, permutation)

\* VectorRegressionModelEvaluator.__init__(data, testData, params, **kwArgsOldParams)
VectorRegressionModelEvaluatorInit(data, testData, params, kwArgsOldParams, permutation) ==
    EvaluatorWithParams("VectorRegressionModelEvaluator", data, testData,
                        RegressionCreateParams(params, kwArgsOldParams), permutation)

\* VectorClassificationModelEvaluator.__init__(data, testData, params, **kwArgsOldParams)
VectorClassificationModelEvaluatorInit(data, testData, params, kwArgsOldParams, permutation) ==
    EvaluatorWithParams("VectorClassificationModelEvaluator", data, testData,
                        ClassificationCreateParams(params, kwArgsOldParams), permutation)

\* RuleBasedVectorClassificationModelEvaluator.__init__(data):
\* super().__init__(data, testData=data)
RuleBasedVectorClassificationModelEvaluatorInit(data) ==
    EvaluatorWithParams("RuleBasedVectorClassificationModelEvaluator", data, data,
                        ClassificationCreateParams(NoParams, NoKwArgs), <<>>)

\* RuleBasedVectorRegressionModelEvaluator.__init__(data):
\* super().__init__(data, testData=data)
RuleBasedVectorRegressionModelEvaluatorInit(data) ==
    EvaluatorWithParams("RuleBasedVectorRegressionModelEvaluator", data, data,
                        RegressionCreateParams(NoParams, NoKwArgs), <<>>)

\* The classes of the regression evaluators
IsRegressionEvaluator(cls) ==
    cls \in {"VectorRegressionModelEvaluator", "RuleBasedVectorRegressionModelEvaluator"}

\* The classes that override evalModel
IsRuleBasedEvaluator(cls) ==
    cls \in {"RuleBasedVectorClassificationModelEvaluator",
             "RuleBasedVectorRegressionModelEvaluator"}

----------------------------------------------------------------------------
(* EvaluationUtil.performSimpleEvaluation (evaluation/eval_util.py)        *)

\* The value of an evaluatorParams argument: None, a dictionary or an instance
ParamsArg(kind, dict, instance) == [kind |-> kind, dict |-> dict, instance |-> instance]

\* dict(testFraction=0.2)
DefaultEvaluatorParams ==
    ParamsArg("dict",
              KwArgs({"testFraction"}, NoSplitter, Fraction(1, 5), DefaultRandomSeed,
                     "False", TRUE, "None", "None"),
              NoParams)

\* EvaluationUtil.__init__: self.evaluatorParams
EvaluationUtilInit(evaluatorParams) ==
    IF evaluatorParams.kind = "None" THEN DefaultEvaluatorParams ELSE evaluatorParams

\* VectorRegressionModelEvaluatorParams.fromDictOrInstance: [raised, params]
RegressionFromDictOrInstance(params) ==
    IF params.kind = "None"
    THEN [raised |-> "",
          params |-> VectorRegressionModelEvaluatorParams(NoSplitter, NoFraction,
                         DefaultRandomSeed, TRUE, "None", "None")]
    ELSE IF params.kind = "dict" THEN RegressionFromOldKwArgsExpanded(params.dict)
    ELSE IF params.instance.cls = "VectorRegressionModelEvaluatorParams"
    THEN [raised |-> "", params |-> params.instance]
    ELSE [raised |-> "ValueError", params |-> NoParams]

\* VectorClassificationModelEvaluatorParams.fromDictOrInstance: [raised, params]
ClassificationFromDictOrInstance(params) ==
    IF params.kind = "None"
    THEN [raised |-> "",
          params |-> VectorClassificationModelEvaluatorParams(NoSplitter, NoFraction,
                         DefaultRandomSeed, TRUE, "None", "False")]
    ELSE IF params.kind = "dict" THEN ClassificationFromOldKwArgsExpanded(params.dict)
    ELSE IF params.instance.cls = "VectorClassificationModelEvaluatorParams"
    THEN [raised |-> "", params |-> params.instance]
    ELSE [raised |-> "ValueError", params |-> NoParams]

\* A model: its name, whether it is a regression model and the number of the
\* variables it predicts
VectorModel(name, isRegression, numPredictedVars) ==
    [name |-> name, isRegression |-> isRegression, numPredictedVars |-> numPredictedVars]

\* createVectorModelEvaluator(data, model=model, params=params), as called by
\* EvaluationUtil.createEvaluator(model): [raised, evaluator]
createVectorModelEvaluator(data, model, params, permutation) ==
    IF model.isRegression
    THEN EvaluatorWithParams("VectorRegressionModelEvaluator", data, NoData,
             RegressionFromDictOrInstance(IF params.kind = "None"
                                          THEN ParamsArg("dict", NoKwArgs, NoParams)
                                          ELSE params),
             permutation)
    ELSE EvaluatorWithParams("VectorClassificationModelEvaluator", data, NoData,
             ClassificationFromDictOrInstance(IF params.kind = "None"
                                              THEN ParamsArg("dict", NoKwArgs, NoParams)
                                              ELSE params),
             permutation)

\* An entry of the history of an evaluation: model.fit on data, an evaluation of
\* the model on data, model.predict on data in an evaluation that fails after it
\* or for computeTestDataOutputs, or createPlots for evaluation data
EvalEvent(ev, data, onTrainingData) ==
    [ev |-> ev, data |-> data.points, onTrainingData |-> onTrainingData]

\* The evaluation data an evaluation returns: the data it was computed on and the
\* number of predicted variables in evalStatsByVarName
NoEvaluationData ==
    [isNone |-> TRUE, data |-> <<>>, onTrainingData |-> FALSE, numPredictedVars |-> 0]

VectorModelEvaluationData(data, onTrainingData, numPredictedVars) ==
    [isNone |-> FALSE, data |-> data.points, onTrainingData |-> onTrainingData,
     numPredictedVars |-> numPredictedVars]

\* VectorModelEvaluationData.getEvalStats() without the name of a predicted
\* variable: the exception that is raised, "" if the statistics are returned
getEvalStats(evalData) == IF evalData.numPredictedVars # 1 THEN "Exception" ELSE ""

\* The number of entries of the statsDict of _evalModel: one for each column of
\* the predictions of a regression model, one for a classification model
NumEvalStats(model) == IF model.isRegression THEN model.numPredictedVars ELSE 1

\* A faulty variant of the selection below: always the training data
EvalModelDataTraining(evaluator, onTrainingData) == evaluator.trainingData

\* data = self.trainingData if onTrainingData else self.testData
EvalModelData(evaluator, onTrainingData) ==
    IF onTrainingData THEN evaluator.trainingData ELSE evaluator.testData

\* VectorModelEvaluator.evalModel(model, onTrainingData): [raised, log, evalData].
\* _evalModel checks the type of the model, then _computeOutputs reads the inputs
\* of the data, which is None if the evaluator has no training data, and an
\* attribute of self.params that parameters of the other class do not have: the
\* classification evaluator computeProbabilities before any prediction, the
\* regression evaluator outputDataFrameTransformer after model.predict. The
\* classification evaluator takes the first name of
\* model.getPredictedVariableNames() after the prediction.
VectorModelEvaluatorEvalModel(evaluator, model, onTrainingData, log) ==
    IF model.isRegression # IsRegressionEvaluator(evaluator.cls)
    THEN [raised |-> "ValueError", log |-> log, evalData |-> NoEvaluationData]
    ELSE IF EvalModelData(evaluator, onTrainingData).isNone
    THEN [raised |-> "AttributeError", log |-> log, evalData |-> NoEvaluationData]
    ELSE IF ~model.isRegression /\ evaluator.params.computeProbabilities = "absent"
    THEN [raised |-> "AttributeError", log |-> log, evalData |-> NoEvaluationData]
    ELSE IF model.isRegression /\ evaluator.params.outputDataFrameTransformer = "absent"
    THEN [raised |-> "AttributeError",
          log |-> Append(log, EvalEvent("predict", EvalModelData(evaluator, onTrainingData),
                                        onTrainingData)),
          evalData |-> NoEvaluationData]
    ELSE IF ~model.isRegression /\ model.numPredictedVars = 0
    THEN [raised |-> "IndexError",
          log |-> Append(log, EvalEvent(IF evaluator.params.computeProbabilities = "True"
                                        THEN "predictClassProbabilities" ELSE "predict",
                                        EvalModelData(evaluator, onTrainingData),
                                        onTrainingData)),
          evalData |-> NoEvaluationData]
    ELSE [raised |-> "",
          log |-> Append(log, EvalEvent("eval", EvalModelData(evaluator, onTrainingData),
                                        onTrainingData)),
          evalData |-> VectorModelEvaluationData(EvalModelData(evaluator, onTrainingData),
                                                 onTrainingData, NumEvalStats(model))]

\* evaluator.evalModel(model, onTrainingData): the rule-based evaluators raise an
\* Exception for the training data and call super().evalModel(model) otherwise
evalModel(evaluator, model, onTrainingData, log) ==
    IF ~IsRuleBasedEvaluator(evaluator.cls)
    THEN VectorModelEvaluatorEvalModel(evaluator, model, onTrainingData, log)
    ELSE IF onTrainingData
    THEN [raised |-> "Exception", log |-> log, evalData |-> NoEvaluationData]
    ELSE VectorModelEvaluatorEvalModel(evaluator, model, FALSE, log)

\* VectorModelEvaluator.fitModel(model): [raised, log]
fitModel(evaluator, model, log) ==
    IF evaluator.trainingData.isNone THEN [raised |-> "Exception", log |-> log]
    ELSE [raised |-> "",
          log |-> Append(log, EvalEvent("fit", evaluator.trainingData, TRUE))]

\* MetricsDictProvider.computeMetrics(model, onTrainingData=onTrainingData) of an
\* evaluator without a tracked experiment: [raised, log]; _computeMetrics fits the
\* model, evaluates it and takes evalData.getEvalStats().getAll(), where
\* getEvalStats raises an Exception unless there is one predicted variable
computeMetrics(evaluator, model, onTrainingData, log) ==
    IF fitModel(evaluator, model, log).raised # "" THEN fitModel(evaluator, model, log)
    ELSE IF evalModel(evaluator, model, onTrainingData,
                      fitModel(evaluator, model, log).log).raised # ""
    THEN [raised |-> evalModel(evaluator, model, onTrainingData,
                               fitModel(evaluator, model, log).log).raised,
          log |-> evalModel(evaluator, model, onTrainingData,
                            fitModel(evaluator, model, log).log).log]
    ELSE [raised |-> getEvalStats(evalModel(evaluator, model, onTrainingData,
                                            fitModel(evaluator, model, log).log).evalData),
          log |-> evalModel(evaluator, model, onTrainingData,
                            fitModel(evaluator, model, log).log).log]

\* evaluator.computeTestDataOutputs(model) = self._computeOutputs(model,
\* self.testData): [raised, log]. The classification evaluator reads
\* self.params.computeProbabilities and calls model.predictClassProbabilities or
\* model.predict; the regression evaluator calls model.predict and then reads
\* self.params.outputDataFrameTransformer. The model is taken to have the
\* prediction method that is called.
computeTestDataOutputs(evaluator, model, log) ==
    IF ~IsRegressionEvaluator(evaluator.cls) /\ evaluator.params.computeProbabilities = "absent"
    THEN [raised |-> "AttributeError", log |-> log]
    ELSE IF evaluator.testData.isNone
    THEN [raised |-> "AttributeError", log |-> log]
    ELSE IF IsRegressionEvaluator(evaluator.cls)
    THEN [raised |-> IF evaluator.params.outputDataFrameTransformer = "absent"
                     THEN "AttributeError" ELSE "",
          log |-> Append(log, EvalEvent("predict", evaluator.testData, FALSE))]
    ELSE [raised |-> "",
          log |-> Append(log, EvalEvent(IF evaluator.params.computeProbabilities = "True"
                                        THEN "predictClassProbabilities" ELSE "predict",
                                        evaluator.testData, FALSE))]

\* gatherResults(evalResultData, ...) of performSimpleEvaluation: the log
gatherResults(e, createPlots) ==
    IF createPlots
    THEN Append(e.log, [ev |-> "createPlots", data |-> e.evalData.data,
                        onTrainingData |-> e.evalData.onTrainingData])
    ELSE e.log

\* The result of performSimpleEvaluation
SimpleEvaluationResult(exc, log, evalData) ==
    [raised |-> exc, log |-> log, evalData |-> evalData]

\* The additional evaluation on the training data after the evaluation e on the
\* test data
EvaluateOnTrainingData(evaluator, model, createPlots, e, t) ==
    IF t.raised # "" THEN SimpleEvaluationResult(t.raised, t.log, NoEvaluationData)
    ELSE SimpleEvaluationResult("", gatherResults(t, createPlots), e.evalData)

\* performSimpleEvaluation from the evaluation e on the test data
AfterTestEvaluation(evaluator, model, createPlots, additionalEvaluationOnTrainingData, e) ==
    IF e.raised # "" THEN SimpleEvaluationResult(e.raised, e.log, NoEvaluationData)
    ELSE IF additionalEvaluationOnTrainingData
    THEN EvaluateOnTrainingData(evaluator, model, createPlots, e,
                                evalModel(evaluator, model, TRUE,
                                          gatherResults(e, createPlots)))
    ELSE SimpleEvaluationResult("", gatherResults(e, createPlots), e.evalData)

\* performSimpleEvaluation from the fit f of the model (f.log is empty if
\* fitModel is false)
AfterFit(evaluator, model, createPlots, additionalEvaluationOnTrainingData, f) ==
    IF f.raised # "" THEN SimpleEvaluationResult(f.raised, f.log, NoEvaluationData)
    ELSE AfterTestEvaluation(evaluator, model, createPlots,
                             additionalEvaluationOnTrainingData,
                             evalModel(evaluator, model, FALSE, f.log))

\* performSimpleEvaluation from the evaluator that createEvaluator returned (c)
WithEvaluator(c, model, createPlots, additionalEvaluationOnTrainingData, fit) ==
    IF c.raised # "" THEN SimpleEvaluationResult(c.raised, <<>>, NoEvaluationData)
    ELSE AfterFit(c.evaluator, model, createPlots, additionalEvaluationOnTrainingData,
                  IF fit THEN fitModel(c.evaluator, model, <<>>)
                  ELSE [raised |-> "", log |-> <<>>])

\* EvaluationUtil(data, evaluatorParams).performSimpleEvaluation(model, createPlots,
\* showPlots, additionalEvaluationOnTrainingData, fitModel): [raised, log, evalData]
EvaluationUtilPerformSimpleEvaluation(data, evaluatorParams, model, createPlots, showPlots, additionalEvaluationOnTrainingData, fit, permutation) ==
    IF showPlots /\ ~createPlots
    THEN SimpleEvaluationResult("ValueError", <<>>, NoEvaluationData)
    ELSE WithEvaluator(createVectorModelEvaluator(data, model,
                                                  EvaluationUtilInit(evaluatorParams),
                                                  permutation),
                       model, createPlots, additionalEvaluationOnTrainingData, fit)

----------------------------------------------------------------------------
(* The inputs of the operations on evaluators and splitters                *)

\* Dictionaries of old-style keyword arguments
OldKwArgs ==
    {NoKwArgs,
     KwArgs({"testFraction"}, NoSplitter, Fraction(1, 2), DefaultRandomSeed, "False", TRUE, "None", "None"),
     KwArgs({"testFraction"}, NoSplitter, Fraction(3, 2), DefaultRandomSeed, "False", TRUE, "None", "None"),
     KwArgs({"computeProbabilities"}, NoSplitter, NoFraction, DefaultRandomSeed, "True", TRUE, "None", "None"),
     KwArgs({"testFraction", "randomSeed", "shuffle"}, NoSplitter, Fraction(1, 3), 7, "False", FALSE, "None", "None"),
     KwArgs({"testFraction", "randomSeed", "shuffle"}, NoSplitter, Fraction(2, 3), 7, "False", FALSE, "None", "None"),
     KwArgs({"additionalMetrics", "computeProbabilities", "testFraction"}, NoSplitter, Fraction(1, 2), DefaultRandomSeed, "True", TRUE, "metrics", "None"),
     KwArgs({"dataSplitter"}, DataSplitterFractional(Fraction(1, 2), FALSE, DefaultRandomSeed), NoFraction, DefaultRandomSeed, "False", TRUE, "None", "None"),
     KwArgs({"outputDataFrameTransformer"}, NoSplitter, NoFraction, DefaultRandomSeed, "False", TRUE, "None", "transformer")}

\* testFraction=0.8, shuffle=False: 1 - 0.8 is the float below 0.2
LargeTestFraction ==
    KwArgs({"testFraction", "shuffle"}, NoSplitter, Fraction(4, 5), DefaultRandomSeed, "False", FALSE, "None", "None")

\* The models that are evaluated: a classification model, regression models that
\* predict one variable, two variables and none
Models ==
    {VectorModel("r", TRUE, 1), VectorModel("c", FALSE, 1), VectorModel("r2", TRUE, 2),
     VectorModel("r0", TRUE, 0)}

\* Parameter objects
ParamsInstances ==
    {VectorClassificationModelEvaluatorParams(NoSplitter, Fraction(1, 3), 7, FALSE, "metrics", "True"),
     VectorRegressionModelEvaluatorParams(NoSplitter, Fraction(1, 2), DefaultRandomSeed, TRUE, "None", "None")}

\* Fractions inside and outside of [0, 1]
Fractions ==
    {Fraction(0, 1), Fraction(1, 5), Fraction(1, 3), Fraction(1, 2), Fraction(2, 3),
     Fraction(4, 5), Fraction(1, 1), Fraction(3, 2), Fraction(-1, 2)}

\* The arguments of an operation; the fields an operation does not have hold
\* the values of IdleEvaluatorArgs
EvaluatorArgs(op, numDataPoints, testData, params, kwArgs, fraction, shuffle, evaluatorParams, model, createPlots, showPlots, additionalEvaluationOnTrainingData, fit, onTrainingData, dataIsNone) ==
    [op |-> op, numDataPoints |-> numDataPoints, testData |-> testData, params |-> params,
     kwArgs |-> kwArgs, fraction |-> fraction, shuffle |-> shuffle,
     evaluatorParams |-> evaluatorParams, model |-> model, createPlots |-> createPlots,
     showPlots |-> showPlots,
     additionalEvaluationOnTrainingData |-> additionalEvaluationOnTrainingData,
     fitModel |-> fit, onTrainingData |-> onTrainingData, dataIsNone |-> dataIsNone]

\* The data argument of the operation: None or a data set of numDataPoints points
DataOf(args) == IF args.dataIsNone THEN NoData ELSE DataOfSize(args.numDataPoints)

IdleEvaluatorArgs ==
    EvaluatorArgs("none", 0, NoData, NoParams, NoKwArgs, NoFraction, FALSE,
                  ParamsArg("None", NoKwArgs, NoParams), VectorModel("", FALSE, 1),
                  TRUE, FALSE, FALSE, TRUE, FALSE, FALSE)

\* cls(data, testData=testData, params=params, **kwArgs) for the two evaluator classes
ConstructorInputs ==
    {[IdleEvaluatorArgs EXCEPT !.op = cls, !.numDataPoints = n, !.testData = t,
                               !.params = p, !.kwArgs = kw] :
        cls \in {"VectorClassificationModelEvaluator", "VectorRegressionModelEvaluator"},
        n \in 0..MaxDataPoints, t \in {NoData, InputOutputData(<<200, 201>>)},
        p \in {NoParams} \cup ParamsInstances, kw \in OldKwArgs}
    \cup {[IdleEvaluatorArgs EXCEPT !.op = "VectorRegressionModelEvaluator",
                                    !.numDataPoints = 5, !.kwArgs = LargeTestFraction]}
    \cup {[IdleEvaluatorArgs EXCEPT !.op = cls, !.dataIsNone = TRUE, !.testData = t,
                                    !.params = p, !.kwArgs = kw] :
            cls \in {"VectorClassificationModelEvaluator", "VectorRegressionModelEvaluator"},
            t \in {NoData, InputOutputData(<<200, 201>>)},
            p \in {NoParams} \cup ParamsInstances, kw \in OldKwArgs}

\* cls(data) for the two classes of rule-based evaluators
RuleBasedInputs ==
    {[IdleEvaluatorArgs EXCEPT !.op = cls, !.numDataPoints = n] :
        cls \in {"RuleBasedVectorClassificationModelEvaluator",
                 "RuleBasedVectorRegressionModelEvaluator"},
        n \in 0..MaxDataPoints}
    \cup {[IdleEvaluatorArgs EXCEPT !.op = cls, !.dataIsNone = TRUE] :
            cls \in {"RuleBasedVectorClassificationModelEvaluator",
                     "RuleBasedVectorRegressionModelEvaluator"}}

\* DataSplitterFractional(fraction, shuffle=shuffle).split(data)
SplitInputs ==
    {[IdleEvaluatorArgs EXCEPT !.op = "split", !.numDataPoints = n, !.fraction = f,
                               !.shuffle = s] :
        n \in 0..MaxDataPoints, f \in Fractions, s \in BOOLEAN}
    \cup {[IdleEvaluatorArgs EXCEPT !.op = "split", !.numDataPoints = n,
                                    !.fraction = NoFraction] : n \in 0..1}
    \cup {[IdleEvaluatorArgs EXCEPT !.op = "split", !.dataIsNone = TRUE,
                                    !.fraction = Fraction(1, 2), !.shuffle = s] :
            s \in BOOLEAN}

\* EvaluationUtil(data, evaluatorParams).performSimpleEvaluation(model, ...)
SimpleEvaluationInputs ==
    {[IdleEvaluatorArgs EXCEPT !.op = "performSimpleEvaluation", !.numDataPoints = n,
                               !.evaluatorParams = ep, !.model = m, !.createPlots = flags[1],
                               !.showPlots = flags[2],
                               !.additionalEvaluationOnTrainingData = flags[3],
                               !.fitModel = flags[4]] :
        n \in 0..MaxDataPoints,
        ep \in {ParamsArg("None", NoKwArgs, NoParams)}
               \cup {ParamsArg("dict", kw, NoParams) : kw \in OldKwArgs}
               \cup {ParamsArg("instance", NoKwArgs, p) : p \in ParamsInstances},
        m \in Models,
        flags \in BOOLEAN \X BOOLEAN \X BOOLEAN \X BOOLEAN}
    \cup {[IdleEvaluatorArgs EXCEPT !.op = "performSimpleEvaluation", !.dataIsNone = TRUE,
                                    !.evaluatorParams = ep, !.model = m,
                                    !.fitModel = fit] :
            ep \in {ParamsArg("None", NoKwArgs, NoParams),
                    ParamsArg("instance", NoKwArgs, VectorRegressionModelEvaluatorParams(NoSplitter, NoFraction, DefaultRandomSeed, TRUE, "None", "None"))},
            m \in Models, fit \in BOOLEAN}

----------------------------------------------------------------------------
(* The operations on evaluators and splitters                              *)

EvaluatorInit ==
    /\ evArgs \in ConstructorInputs \cup RuleBasedInputs \cup SplitInputs
                  \cup SimpleEvaluationInputs
    /\ evCall = "none"
    /\ evEvaluator = NoEvaluator
    /\ evRaised = ""
    /\ evLog = <<>>
    /\ evSplit = NoSplit
    /\ evResult = NoEvaluationData

\* No operation on evaluators takes place
EvaluatorIdle ==
    /\ evArgs = IdleEvaluatorArgs
    /\ evCall = "none"
    /\ evEvaluator = NoEvaluator
    /\ evRaised = ""
    /\ evLog = <<>>
    /\ evSplit = NoSplit
    /\ evResult = NoEvaluationData

\* VectorClassificationModelEvaluator(data, testData, params, **kwArgsOldParams)
ConstructClassificationEvaluator ==
    /\ evCall = "none"
    /\ evArgs.op = "VectorClassificationModelEvaluator"
    /\ \E permutation \in PermutationsOf(evArgs.numDataPoints) :
         \E r \in {VectorClassificationModelEvaluatorInit(
                       DataOf(evArgs), evArgs.testData, evArgs.params,
                       evArgs.kwArgs, permutation)} :
            /\ evRaised' = r.raised
            /\ evEvaluator' = r.evaluator
    /\ evCall' = evArgs.op
    /\ UNCHANGED <<evArgs, evLog, evSplit, evResult>>
    /\ UNCHANGED outsideEvaluator

\* VectorRegressionModelEvaluator(data, testData, params, **kwArgsOldParams)
ConstructRegressionEvaluator ==
    /\ evCall = "none"
    /\ evArgs.op = "VectorRegressionModelEvaluator"
    /\ \E permutation \in PermutationsOf(evArgs.numDataPoints) :
         \E r \in {VectorRegressionModelEvaluatorInit(
                       DataOf(evArgs), evArgs.testData, evArgs.params,
                       evArgs.kwArgs, permutation)} :
            /\ evRaised' = r.raised
            /\ evEvaluator' = r.evaluator
    /\ evCall' = evArgs.op
    /\ UNCHANGED <<evArgs, evLog, evSplit, evResult>>
    /\ UNCHANGED outsideEvaluator

\* DataSplitterFractional(fraction, shuffle).split(data)
SplitData ==
    /\ evCall = "none"
    /\ evArgs.op = "split"
    /\ \E c \in {DataSplitterFractionalInit(evArgs.fraction, evArgs.shuffle,
                                            DefaultRandomSeed)} :
         IF c.raised # "" THEN evRaised' = c.raised /\ evSplit' = NoSplit
         ELSE \E permutation \in PermutationsOf(evArgs.numDataPoints) :
                 \E r \in {split(c.splitter, DataOf(evArgs), permutation)} :
                    evRaised' = r.raised /\ evSplit' = r.parts
    /\ evCall' = "split"
    /\ UNCHANGED <<evArgs, evEvaluator, evLog, evResult>>
    /\ UNCHANGED outsideEvaluator

\* EvaluationUtil(data, evaluatorParams).performSimpleEvaluation(model, ...); the
\* evaluator it created is kept for reference
PerformSimpleEvaluation ==
    /\ evCall = "none"
    /\ evArgs.op = "performSimpleEvaluation"
    /\ \E permutation \in PermutationsOf(evArgs.numDataPoints) :
         /\ \E r \in {EvaluationUtilPerformSimpleEvaluation(
                          DataOf(evArgs), evArgs.evaluatorParams,
                          evArgs.model, evArgs.createPlots, evArgs.showPlots,
                          evArgs.additionalEvaluationOnTrainingData, evArgs.fitModel,
                          permutation)} :
               /\ evRaised' = r.raised
               /\ evLog' = r.log
               /\ evResult' = r.evalData
         /\ evEvaluator' =
               IF evArgs.showPlots /\ ~evArgs.createPlots THEN NoEvaluator
               ELSE createVectorModelEvaluator(DataOf(evArgs),
                        evArgs.model, EvaluationUtilInit(evArgs.evaluatorParams),
                        permutation).evaluator
    /\ evCall' = "performSimpleEvaluation"
    /\ UNCHANGED <<evArgs, evSplit>>
    /\ UNCHANGED outsideEvaluator

\* The classes of evaluators
EvaluatorClasses ==
    {"VectorClassificationModelEvaluator", "VectorRegressionModelEvaluator",
     "RuleBasedVectorClassificationModelEvaluator", "RuleBasedVectorRegressionModelEvaluator"}

\* RuleBasedVectorClassificationModelEvaluator(data) and
\* RuleBasedVectorRegressionModelEvaluator(data)
ConstructRuleBasedEvaluator ==
    /\ evCall = "none"
    /\ IsRuleBasedEvaluator(evArgs.op)
    /\ \E r \in {IF IsRegressionEvaluator(evArgs.op)
                 THEN RuleBasedVectorRegressionModelEvaluatorInit(DataOf(evArgs))
                 ELSE RuleBasedVectorClassificationModelEvaluatorInit(DataOf(evArgs))} :
         /\ evRaised' = r.raised
         /\ evEvaluator' = r.evaluator
    /\ evCall' = evArgs.op
    /\ UNCHANGED <<evArgs, evLog, evSplit, evResult>>
    /\ UNCHANGED outsideEvaluator

\* evaluator.fitModel(model) on an evaluator that was constructed
FitModel ==
    /\ evCall \in EvaluatorClasses
    /\ evEvaluator.constructed
    /\ \E model \in Models :
         /\ evArgs' = [evArgs EXCEPT !.model = model]
         /\ \E r \in {fitModel(evEvaluator, model, evLog)} :
               /\ evRaised' = r.raised
               /\ evLog' = r.log
    /\ evCall' = "fitModel"
    /\ UNCHANGED <<evEvaluator, evSplit, evResult>>
    /\ UNCHANGED outsideEvaluator

\* evaluator.evalModel(model, onTrainingData) on an evaluator that was
\* constructed, possibly after fitModel
EvalModel ==
    /\ evCall \in EvaluatorClasses \cup {"fitModel"}
    /\ evEvaluator.constructed
    /\ \E model \in Models, onTrainingData \in BOOLEAN :
         /\ evArgs' = [evArgs EXCEPT !.model = model, !.onTrainingData = onTrainingData]
         /\ \E r \in {evalModel(evEvaluator, model, onTrainingData, evLog)} :
               /\ evRaised' = r.raised
               /\ evLog' = r.log
               /\ evResult' = r.evalData
    /\ evCall' = "evalModel"
    /\ UNCHANGED <<evEvaluator, evSplit>>
    /\ UNCHANGED outsideEvaluator

\* evaluator.computeMetrics(model, onTrainingData=onTrainingData) on an evaluator
\* that was constructed
ComputeMetrics ==
    /\ evCall \in EvaluatorClasses
    /\ evEvaluator.constructed
    /\ \E model \in Models, onTrainingData \in BOOLEAN :
         /\ evArgs' = [evArgs EXCEPT !.model = model, !.onTrainingData = onTrainingData]
         /\ \E r \in {computeMetrics(evEvaluator, model, onTrainingData, evLog)} :
               /\ evRaised' = r.raised
               /\ evLog' = r.log
    /\ evCall' = "computeMetrics"
    /\ UNCHANGED <<evEvaluator, evSplit, evResult>>
    /\ UNCHANGED outsideEvaluator

\* evaluator.computeTestDataOutputs(model) on an evaluator that was constructed
ComputeTestDataOutputs ==
    /\ evCall \in EvaluatorClasses
    /\ evEvaluator.constructed
    /\ \E model \in Models :
         /\ evArgs' = [evArgs EXCEPT !.model = model]
         /\ \E r \in {computeTestDataOutputs(evEvaluator, model, evLog)} :
               /\ evRaised' = r.raised
               /\ evLog' = r.log
    /\ evCall' = "computeTestDataOutputs"
    /\ UNCHANGED <<evEvaluator, evSplit, evResult>>
    /\ UNCHANGED outsideEvaluator

EvaluatorNext ==
    \/ ConstructClassificationEvaluator
    \/ ConstructRegressionEvaluator
    \/ ConstructRuleBasedEvaluator
    \/ FitModel
    \/ EvalModel
    \/ ComputeMetrics
    \/ ComputeTestDataOutputs
    \/ SplitData
    \/ PerformSimpleEvaluation

----------------------------------------------------------------------------
(* Column generators (columngen.py)                                        *)

\* The index keys of the data frames
IndexKeys == {"a", "b", "c"}

\* A data frame: the sequence of the index keys of its rows
DataFrames == SeqsUpTo(IndexKeys, MaxRows)

\* A series: its name, its index and one value per index entry
Series(values, index, name) == [name |-> name, index |-> index, values |-> values]

NoSeries == Series(<<>>, <<>>, "")

\* KeyValueCache.get(key): the value stored for the key, None if there is none
CacheGet(cache, key) == cache[key]

\* KeyValueCache.set(key, value)
CacheSet(cache, key, value) == [cache EXCEPT ![key] = value]

RECURSIVE NonNullPositions(_, _)
\* The positions, from i on, of the values that are not null
NonNullPositions(values, i) ==
    IF i > Len(values) THEN <<>>
    ELSE (IF values[i] # "None" THEN <<i>> ELSE <<>>) \o NonNullPositions(values, i + 1)

\* series.dropna(): the entries whose value is not null, in their order
SeriesDropNa(series) ==
    LET kept == NonNullPositions(series.values, 1)
    IN Series([i \in 1..Len(kept) |-> series.values[kept[i]]],
              [i \in 1..Len(kept) |-> series.index[kept[i]]], series.name)

\* A faulty variant of the selection below: all rows
MissingRowsAll(df, cache_series) == df

\* df[~df.index.isin(cache_series.index)]
MissingRows(df, cache_series) ==
    SelectSeq(df, LAMBDA key : \A i \in 1..Len(cache_series.index) :
                                   cache_series.index[i] # key)

\* pd.concat((a, b)) of two series
SeriesConcat(a, b) == Series(a.values \o b.values, a.index \o b.index, a.name)

\* A column generator: its class, the name of its column, the value that it (or
\* the generator it wraps) generates for a row, by index key, and whether it
\* has a cache
ColumnGenerator(cls, generatedColumnName, valueOf, hasCache) ==
    [cls |-> cls, generatedColumnName |-> generatedColumnName, valueOf |-> valueOf,
     hasCache |-> hasCache]

\* The outcome of _generate_column: the result (a list if isSeries is false), the
\* cache, and the invocations of the wrapped generator or of _generate_value,
\* each with the index keys of the rows it was given
Generated(values, index, isSeries, cache, invoked) ==
    [values |-> values, index |-> index, isSeries |-> isSeries, cache |-> cache,
     invoked |-> invoked]

\* _generate_column of a generator without cache, which returns a list of the
\* values of the rows
PlainGenerateColumn(gen, df, cache) ==
    Generated([i \in 1..Len(df) |-> gen.valueOf[df[i]]], <<>>, FALSE, cache, <<df>>)

RECURSIVE StoreLoop(_, _, _)
\* for key, value in missing_series.iteritems(): self.cache.set(key, value)
StoreLoop(cache, missing_series, i) ==
    IF i > Len(missing_series.index) THEN cache
    ELSE StoreLoop(CacheSet(cache, missing_series.index[i], missing_series.values[i]),
                   missing_series, i + 1)

\* The result of ColumnGenerator.generate_column from that of _generate_column
NamedSeries(gen, df, g) ==
    IF g.isSeries THEN Series(g.values, g.index, gen.generatedColumnName)
    ELSE Series(g.values, df, gen.generatedColumnName)

\* IndexCachedColumnGenerator._generate_column with the series of cached values
\* and the rows that are missing in it
IndexCachedFromMissing(gen, cache, cache_series, missing_values_df) ==
    IF Len(missing_values_df) = 0
    THEN Generated(cache_series.values, cache_series.index, TRUE, cache, <<>>)
    ELSE LET missing_series ==
                 NamedSeries(gen, missing_values_df,
                             PlainGenerateColumn(gen, missing_values_df, cache))
         IN Generated(SeriesConcat(cache_series, missing_series).values,
                      SeriesConcat(cache_series, missing_series).index, TRUE,
                      StoreLoop(cache, missing_series, 1), <<missing_values_df>>)

\* IndexCachedColumnGenerator._generate_column with the series of cached values
IndexCachedFromCacheSeries(gen, df, cache, cache_series) ==
    IndexCachedFromMissing(gen, cache, cache_series, MissingRows(df, cache_series))

\* IndexCachedColumnGenerator._generate_column
IndexCachedGenerateColumn(gen, df, cache) ==
    IndexCachedFromCacheSeries(gen, df, cache,
        SeriesDropNa(Series([i \in 1..Len(df) |-> CacheGet(cache, df[i])], df, "")))

RECURSIVE CachedByIndexLoop(_, _, _, _)
\* The loop of ColumnGeneratorCachedByIndex._generate_column; st holds the values,
\* the cache and the invocations of _generate_value so far
CachedByIndexLoop(gen, df, i, st) ==
    IF i > Len(df) THEN st
    ELSE CachedByIndexLoop(gen, df, i + 1,
            IF gen.hasCache /\ CacheGet(st.cache, df[i]) # "None"
            THEN [st EXCEPT !.values = Append(@, CacheGet(st.cache, df[i]))]
            ELSE [st EXCEPT !.values = Append(@, gen.valueOf[df[i]]),
                            !.cache = IF gen.hasCache
                                      THEN CacheSet(@, df[i], gen.valueOf[df[i]])
                                      ELSE @,
                            !.invoked = Append(@, <<df[i]>>)])

\* ColumnGeneratorCachedByIndex._generate_column
CachedByIndexGenerateColumn(gen, df, cache) ==
    CachedByIndexLoop(gen, df, 1, Generated(<<>>, <<>>, FALSE, cache, <<>>))

\* self._generate_column(df) of the generator's class
GenerateColumnOfClass(gen, df, cache) ==
    IF gen.cls = "IndexCachedColumnGenerator" THEN IndexCachedGenerateColumn(gen, df, cache)
    ELSE IF gen.cls = "ColumnGeneratorCachedByIndex"
    THEN CachedByIndexGenerateColumn(gen, df, cache)
    ELSE PlainGenerateColumn(gen, df, cache)

\* ColumnGenerator.generate_column(df): [series, cache, invoked]
generate_column(gen, df, cache) ==
    LET g == GenerateColumnOfClass(gen, df, cache)
    IN [series |-> NamedSeries(gen, df, g), cache |-> g.cache, invoked |-> g.invoked]

\* The generators: one that generates a value for every key and one that
\* generates None for the key "b", for each class; a generator of class
\* ColumnGenerator has no cache
ColumnGenerators ==
    {ColumnGenerator(cls[1], "col", valueOf, cls[2]) :
        cls \in {<<"ColumnGenerator", FALSE>>, <<"IndexCachedColumnGenerator", TRUE>>,
                 <<"ColumnGeneratorCachedByIndex", TRUE>>,
                 <<"ColumnGeneratorCachedByIndex", FALSE>>},
        valueOf \in {[a |-> "va", b |-> "vb", c |-> "vc"],
                     [a |-> "va", b |-> "None", c |-> "vc"]}}

\* The contents of a cache: for every key a value that was stored earlier, or None
CacheContents == [IndexKeys -> {"None", "stored"}]

EmptyCache == [key \in IndexKeys |-> "None"]

ColumnInit ==
    /\ cgGen \in ColumnGenerators
    /\ cgCache \in IF cgGen.hasCache THEN CacheContents ELSE {EmptyCache}
    /\ cgCacheBefore = cgCache
    /\ cgCalled = FALSE
    /\ cgRepeated = FALSE
    /\ cgDf = <<>>
    /\ cgResult = NoSeries
    /\ cgInvoked = <<>>

\* No column is generated
ColumnIdle ==
    /\ cgGen = ColumnGenerator("None", "", [a |-> "None", b |-> "None", c |-> "None"], FALSE)
    /\ cgCache = EmptyCache
    /\ cgCacheBefore = EmptyCache
    /\ cgCalled = FALSE
    /\ cgRepeated = FALSE
    /\ cgDf = <<>>
    /\ cgResult = NoSeries
    /\ cgInvoked = <<>>

\* gen.generate_column(df)
GenerateColumn ==
    /\ cgGen.cls # "None"
    /\ \E df \in DataFrames :
         /\ cgDf' = df
         /\ cgRepeated' = (cgCalled /\ df = cgDf)
         /\ \E r \in {generate_column(cgGen, df, cgCache)} :
               /\ cgResult' = r.series
               /\ cgCache' = r.cache
               /\ cgInvoked' = r.invoked
    /\ cgCacheBefore' = cgCache
    /\ cgCalled' = TRUE
    /\ UNCHANGED cgGen
    /\ UNCHANGED outsideColumn

ColumnNext == GenerateColumn

----------------------------------------------------------------------------
(* Restoring the state of pickled objects (util/pickle.py, vectoriser.py)   *)

\* The names of the properties of the states
PropertyNames == {"a", "b", "_resultType", "name"}

\* The marker of a name that is not in a state dictionary
Absent == "ABSENT"

\* The value that a property has in a pickled state, by its name
PickledValue(name) ==
    CASE name = "a" -> "va" [] name = "b" -> "vb" [] name = "_resultType" -> "vr"
      [] OTHER -> "vn"

\* The state dictionaries: a value or Absent for every name
StateDicts ==
    {[name \in PropertyNames |-> IF name \in present THEN PickledValue(name) ELSE Absent] :
        present \in SUBSET PropertyNames}

\* An optional argument: None if it is not given
OptionalArg(given, items) == [given |-> given, items |-> items]

RECURSIVE RenameLoop(_, _, _)
\* for mOld, mNew in renamedProperties.items(): if mOld in state: ...
RenameLoop(state, renamedProperties, i) ==
    IF i > Len(renamedProperties) THEN state
    ELSE RenameLoop(IF state[renamedProperties[i][1]] # Absent
                    THEN [[state EXCEPT ![renamedProperties[i][2]] = state[renamedProperties[i][1]]]
                             EXCEPT ![renamedProperties[i][1]] = Absent]
                    ELSE state,
                    renamedProperties, i + 1)

RECURSIVE OptionalLoopOverwriting(_, _, _)
\* A faulty variant of the loop below: the properties are set to None in any case
OptionalLoopOverwriting(state, newOptionalProperties, i) ==
    IF i > Len(newOptionalProperties) THEN state
    ELSE OptionalLoopOverwriting([state EXCEPT ![newOptionalProperties[i]] = "None"],
                                 newOptionalProperties, i + 1)

RECURSIVE OptionalLoop(_, _, _)
\* for mNew in newOptionalProperties: if mNew not in state: state[mNew] = None
OptionalLoop(state, newOptionalProperties, i) ==
    IF i > Len(newOptionalProperties) THEN state
    ELSE OptionalLoop(IF state[newOptionalProperties[i]] = Absent
                      THEN [state EXCEPT ![newOptionalProperties[i]] = "None"]
                      ELSE state,
                      newOptionalProperties, i + 1)

\* Vectoriser.__setstate__(state): the __dict__ of the vectoriser
VectoriserSetstate(state) == OptionalLoop(state, <<"_resultType", "name">>, 1)

\* setstate, the handling of new and changed properties: the state dictionary
\* that is passed on
HandledState(state, renamedProperties, newOptionalProperties) ==
    LET renamed == IF renamedProperties.given
                   THEN RenameLoop(state, renamedProperties.items, 1) ELSE state
    IN IF newOptionalProperties.given
       THEN OptionalLoop(renamed, newOptionalProperties.items, 1) ELSE renamed

\* setstate(cls, obj, state, renamedProperties, newOptionalProperties): the
\* __dict__ of obj; the super class of cls is object, which has no
\* __setstate__, or Vectoriser
setstate(superClass, state, renamedProperties, newOptionalProperties) ==
    IF superClass = "Vectoriser"
    THEN VectoriserSetstate(HandledState(state, renamedProperties, newOptionalProperties))
    ELSE HandledState(state, renamedProperties, newOptionalProperties)

\* The mappings from old to new names, in the order of the dictionary's items:
\* no old name twice
RenamedProperties ==
    {r \in SeqsUpTo(PropertyNames \X PropertyNames, MaxProperties) :
        \A i, j \in 1..Len(r) : i # j => r[i][1] # r[j][1]}

\* The position of a name in the order in which the lists name the properties
NamePosition(name) ==
    CASE name = "a" -> 1 [] name = "b" -> 2 [] name = "_resultType" -> 3 [] OTHER -> 4

\* The lists of new optional properties
NewOptionalProperties ==
    {o \in SeqsUpTo(PropertyNames, MaxProperties) :
        \A i, j \in 1..Len(o) : i < j => NamePosition(o[i]) < NamePosition(o[j])}

NotGiven == OptionalArg(FALSE, <<>>)

PickleInit ==
    /\ psCall = "none"
    /\ psSuperClass = "object"
    /\ psState = [name \in PropertyNames |-> Absent]
    /\ psRenamed = NotGiven
    /\ psOptional = NotGiven
    /\ psHandled = psState
    /\ psDict = psState

\* No state is restored
PickleIdle == PickleInit

\* Unpickling an object whose __setstate__ calls
\* setstate(cls, obj, state, renamedProperties, newOptionalProperties)
SetState ==
    /\ psCall = "none"
    /\ \E state \in StateDicts, superClass \in {"object", "Vectoriser"},
          renamedProperties \in {NotGiven} \cup {OptionalArg(TRUE, r) : r \in RenamedProperties},
          newOptionalProperties \in {NotGiven} \cup {OptionalArg(TRUE, o) : o \in NewOptionalProperties} :
         /\ psState' = state
         /\ psSuperClass' = superClass
         /\ psRenamed' = renamedProperties
         /\ psOptional' = newOptionalProperties
         /\ psHandled' = HandledState(state, renamedProperties, newOptionalProperties)
         /\ psDict' = setstate(superClass, state, renamedProperties, newOptionalProperties)
    /\ psCall' = "setstate"
    /\ UNCHANGED outsidePickle

\* Unpickling a vectoriser: vectoriser.__setstate__(state)
VectoriserSetState ==
    /\ psCall = "none"
    /\ \E state \in StateDicts :
         /\ psState' = state
         /\ psHandled' = state
         /\ psDict' = VectoriserSetstate(state)
    /\ psCall' = "Vectoriser.__setstate__"
    /\ psSuperClass' = "object"
    /\ psRenamed' = NotGiven
    /\ psOptional' = NotGiven
    /\ UNCHANGED outsidePickle

PickleNext == SetState \/ VectoriserSetState

----------------------------------------------------------------------------
(* ClassificationEvalStatsCollection.getGlobalStats                         *)

\* A ClassificationEvalStats object of a collection: the object as constructed
\* and its y_predicted
StatsMember(evalStats, y_predicted) == [es |-> evalStats, y_predicted |-> y_predicted]

RECURSIVE Concatenate(_)
\* np.concatenate(arrays) of a non-empty list of arrays
Concatenate(arrays) ==
    IF Len(arrays) = 0 THEN <<>> ELSE Head(arrays) \o Concatenate(Tail(arrays))

\* The rows of a data frame with the cells in the order of the given columns
AlignedRows(df, columns) ==
    [k \in 1..Len(df.rows) |-> [c \in 1..Len(columns) |-> df.rows[k][ColumnIndex(df, columns[c])]]]

\* A faulty variant of the concatenation below: the first frame only
PdConcatFirstOnly(frames) == Head(SelectSeq(frames, LAMBDA df : ~df.isNone))

\* pd.concat(frames) of data frames with the same set of columns: None objects
\* are dropped, the rows follow each other, aligned to the columns of the first
PdConcat(frames) ==
    LET given == SelectSeq(frames, LAMBDA df : ~df.isNone)
    IN DataFrame(given[1].columns,
                 Concatenate([i \in 1..Len(given) |-> AlignedRows(given[i], given[1].columns)]))

NoGlobalStats == [isNone |-> TRUE, id |-> 0, es |-> NoEvalStats, y_predicted |-> <<>>]

\* The ClassificationEvalStats object that getGlobalStats constructs:
\* [raised, es, y_predicted]
ConstructGlobalStats(statsList) ==
    IF Len(statsList) = 0
    THEN [raised |-> "ValueError", es |-> NoEvalStats, y_predicted |-> <<>>]
    ELSE LET y_true == Concatenate([i \in 1..Len(statsList) |-> statsList[i].es.y_true])
             y_predicted == Concatenate([i \in 1..Len(statsList) |-> statsList[i].y_predicted])
             es0 == statsList[1].es
             withProbs == ~es0.y_predictedClassProbabilities.isNone
             y_probs == IF withProbs
                        THEN PdConcat([i \in 1..Len(statsList) |->
                                          statsList[i].es.y_predictedClassProbabilities])
                        ELSE NoneDF
             labels == IF withProbs THEN y_probs.columns ELSE es0.labels
             r == ClassificationEvalStatsInit(
                      CtorArgs(y_true, y_probs, labels, SomeList(es0.metrics), NoneList,
                               es0.binaryPositiveLabel))
         IN [raised |-> r.raised, es |-> r.es,
             y_predicted |-> IF r.raised = "" THEN y_predicted ELSE <<>>]

\* collection.getGlobalStats(): [raised, globalStats, returned, constructions];
\* constructions counts the objects constructed so far and identifies the
\* object in the field id
getGlobalStats(statsList, globalStats, constructions) ==
    IF ~globalStats.isNone
    THEN [raised |-> "", globalStats |-> globalStats, returned |-> globalStats,
          constructions |-> constructions]
    ELSE LET c == ConstructGlobalStats(statsList)
             g == [isNone |-> FALSE, id |-> constructions + 1, es |-> c.es,
                   y_predicted |-> c.y_predicted]
         IN IF c.raised # ""
            THEN [raised |-> c.raised, globalStats |-> NoGlobalStats,
                  returned |-> NoGlobalStats, constructions |-> constructions]
            ELSE [raised |-> "", globalStats |-> g, returned |-> g,
                  constructions |-> constructions + 1]

\* The samples of a member: none, or one with its true and its predicted label
MemberSamples == {<<>>} \cup {<<<<t, p>>>> : t \in {"0", "1"}, p \in {"0", "1"}}

\* The class probabilities of a member with the given number of samples: none,
\* or a frame with the labels as columns in either order
MemberProbabilities(n) ==
    {NoneDF} \cup {DataFrame(columns, [k \in 1..n |-> row]) :
                      columns \in {<<"0", "1">>, <<"1", "0">>},
                      row \in {<<1000, 0>>, <<250, 750>>}}

\* The members of the collections: ClassificationEvalStats objects for the
\* labels 0 and 1 with the default metrics
StatsMembers ==
    {StatsMember(ClassificationEvalStatsInit(
                     CtorArgs([k \in 1..Len(smp) |-> smp[k][1]], probs, <<"0", "1">>,
                              NoneList, NoneList, b)).es,
                 [k \in 1..Len(smp) |-> smp[k][2]]) :
        smp \in MemberSamples, probs \in MemberProbabilities(1), b \in {GUESS, "None"}}
    \cup
    {StatsMember(ClassificationEvalStatsInit(
                     CtorArgs(<<>>, probs, <<"0", "1">>, NoneList, NoneList, b)).es, <<>>) :
        probs \in MemberProbabilities(0), b \in {GUESS, "None"}}

CollectionInit ==
    /\ gcList \in SeqsUpTo({member \in StatsMembers : member.es.constructed}, MaxMembers)
    /\ gcGlobal = NoGlobalStats
    /\ gcReturned = NoGlobalStats
    /\ gcRaised = ""
    /\ gcCalls = 0
    /\ gcConstructions = 0

\* No collection
CollectionIdle ==
    /\ gcList = <<>>
    /\ gcGlobal = NoGlobalStats
    /\ gcReturned = NoGlobalStats
    /\ gcRaised = ""
    /\ gcCalls = 0
    /\ gcConstructions = 0

\* ClassificationEvalStatsCollection(evalStatsList).getGlobalStats(), also repeated
GetGlobalStats ==
    /\ gcCalls < MaxCalls
    /\ \E r \in {getGlobalStats(gcList, gcGlobal, gcConstructions)} :
          /\ gcGlobal' = r.globalStats
          /\ gcReturned' = r.returned
          /\ gcRaised' = r.raised
          /\ gcConstructions' = r.constructions
    /\ gcCalls' = gcCalls + 1
    /\ UNCHANGED gcList
    /\ UNCHANGED outsideCollection

CollectionNext == GetGlobalStats

----------------------------------------------------------------------------
(* Specifications *)

vars == <<statsVars, compareVars, evaluatorVars, columnVars, pickleVars, collectionVars>>

\* The operations on eval stats objects
Init == StatsInit /\ CompareIdle /\ EvaluatorIdle /\ ColumnIdle /\ PickleIdle /\ CollectionIdle

Next == StatsNext

Spec == Init /\ [][Next]_vars

\* The comparisons of models
InitCompare == StatsIdle /\ CompareInit /\ EvaluatorIdle /\ ColumnIdle /\ PickleIdle /\ CollectionIdle

SpecCompare == InitCompare /\ [][CompareNext]_vars

\* The operations on evaluators, splitters and evaluation utils
InitEvaluator == StatsIdle /\ CompareIdle /\ EvaluatorInit /\ ColumnIdle /\ PickleIdle /\ CollectionIdle

SpecEvaluator == InitEvaluator /\ [][EvaluatorNext]_vars

\* The generation of columns
InitColumn == StatsIdle /\ CompareIdle /\ EvaluatorIdle /\ ColumnInit /\ PickleIdle /\ CollectionIdle

SpecColumn == InitColumn /\ [][ColumnNext]_vars

\* The restoring of states
InitPickle == StatsIdle /\ CompareIdle /\ EvaluatorIdle /\ ColumnIdle /\ PickleInit /\ CollectionIdle

SpecPickle == InitPickle /\ [][PickleNext]_vars

\* The global statistics of collections
InitCollection ==
    StatsIdle /\ CompareIdle /\ EvaluatorIdle /\ ColumnIdle /\ PickleIdle /\ CollectionInit

SpecCollection == InitCollection /\ [][CollectionNext]_vars

----------------------------------------------------------------------------
(* Properties of the eval stats operations *)

\* The samples of the binary eval stats es that are predicted positive (pred) or
\* not at threshold t and are ground-truth positive (gt) or not
SamplesWhere(t, pred, gt) ==
    {k \in 1..Len(es.y_true) :
        /\ (\E c \in 1..Len(es.y_predictedClassProbabilities.columns) :
               /\ PyEq(es.y_predictedClassProbabilities.columns[c], es.binaryPositiveLabel)
               /\ ~FloatLess(Probability(es.y_predictedClassProbabilities.rows[k][c]), t)) = pred
        /\ PyEq(es.y_true[k], es.binaryPositiveLabel) = gt}

\* The threshold variation data was created by the last call
SweepDone ==
    /\ lastCall.op = "getVarData"
    /\ raised = ""
    /\ es.isBinary
    /\ es.probabilitiesAvailable

\* The floats of 0, 0.01, ..., 1
FloatsOfHundredths == <<>> \o [i \in 1..101 |-> FloatOf(i - 1, 100)]

\* The floats of 0.000025, 0.010025, ..., 1.000025
FloatsAboveHundredths == <<>> \o [i \in 1..101 |-> FloatOf(400 * (i - 1) + 1, 40000)]

\* C1: the threshold variation data of a binary eval stats object with class
\* probabilities holds one BinaryClassificationCounts for each of the 101
\* thresholds 0, 0.01, ..., 1 in increasing order (as floats: the first is 0, the
\* last is 1, the i-th is (i - 1) / 100 up to the rounding of the multiplication,
\* never below the float of (i - 1) / 100); for threshold t, a sample is a
\* predicted positive iff its positive-class probability is >= t and a ground-truth
\* positive iff its true label equals binaryPositiveLabel; every sample is counted
\* in exactly one of tp, fp, tn, fn.
C1_ThresholdSweepCounts ==
    SweepDone =>
        /\ ~es.varData.isNone
        /\ Len(es.varData.thresholds) = 101
        /\ Len(es.varData.counts) = 101
        /\ \A i \in 1..101 :
              LET t == es.varData.thresholds[i]
                  c == es.varData.counts[i]
              IN /\ ~FloatLess(t, FloatsOfHundredths[i])
                 /\ FloatLess(t, FloatsAboveHundredths[i])
                 /\ i = 1 => t = FloatsOfHundredths[1]
                 /\ i = 101 => t = FloatsOfHundredths[101]
                 /\ i > 1 => FloatLess(es.varData.thresholds[i - 1], t)
                 /\ c.tp = Cardinality(SamplesWhere(t, TRUE, TRUE))
                 /\ c.fp = Cardinality(SamplesWhere(t, TRUE, FALSE))
                 /\ c.fn = Cardinality(SamplesWhere(t, FALSE, TRUE))
                 /\ c.tn = Cardinality(SamplesWhere(t, FALSE, FALSE))
                 /\ c.tp + c.fp + c.tn + c.fn = Len(es.y_true)

\* A sweep over three samples, one of them with a probability equal to the threshold
\* 0.5: it is a predicted positive at 0.5 and a predicted negative at 0.51, and
\* all four kinds of counts occur
C1_Witness ==
    /\ SweepDone
    /\ Len(es.y_true) = 3
    /\ es.varData.counts[51].fp = 1
    /\ es.varData.counts[52].fp = 0
    /\ es.varData.counts[52].tn = 1
    /\ es.varData.counts[52].tp = 1
    /\ es.varData.counts[52].fn = 1

\* A sample whose probability 0.57 is the float of 57 / 100: the threshold
\* 57 * 0.01 is the next float above it, the sample is a predicted negative there
C1_WitnessRoundedThreshold ==
    /\ SweepDone
    /\ Len(es.y_true) = 1
    /\ FloatLess(FloatsOfHundredths[58], es.varData.thresholds[58])
    /\ es.varData.counts[57].tp = 1
    /\ es.varData.counts[58].fn = 1

\* The positive predictions, true positives and ground-truth positives at the
\* i-th threshold
PredictedPositives(i) ==
    SamplesWhere(thresholds[i], TRUE, TRUE) \cup SamplesWhere(thresholds[i], TRUE, FALSE)

TruePositives(i) == SamplesWhere(thresholds[i], TRUE, TRUE)

GroundTruthPositives == {k \in 1..Len(es.y_true) : PyEq(es.y_true[k], es.binaryPositiveLabel)}

\* The thresholds whose precision is at least minPrecision percent, a threshold
\* without positive predictions having precision 0
ThresholdsReaching(minPrecision) ==
    {i \in 1..101 :
        IF PredictedPositives(i) = {}
        THEN 0 >= minPrecision
        ELSE Cardinality(TruePositives(i)) * 100 >= minPrecision * Cardinality(PredictedPositives(i))}

\* The value v is the recall at the i-th threshold (0 without ground-truth positives)
IsRecallAt(v, i) ==
    /\ v.kind = "frac"
    /\ IF GroundTruthPositives = {}
       THEN v.num = 0
       ELSE v.num * Cardinality(GroundTruthPositives) = Cardinality(TruePositives(i)) * v.den

\* The value v is at least the recall at the i-th threshold
IsAtLeastRecallAt(v, i) ==
    /\ v.kind = "frac"
    /\ IF GroundTruthPositives = {}
       THEN v.num >= 0
       ELSE v.num * Cardinality(GroundTruthPositives) >= Cardinality(TruePositives(i)) * v.den

\* recallForPrecision was computed by the last call
RecallForPrecisionDone ==
    /\ lastCall.op = "computeValueForEvalStats"
    /\ lastCall.metric.cls = "BinaryClassificationMetricRecallForPrecision"
    /\ raised = ""

\* C2: recallForPrecision.computeValueForEvalStats returns the maximum recall over
\* the swept thresholds whose precision is at least the minimum precision, and NaN
\* exactly when no swept threshold reaches that precision.
C2_RecallForPrecisionIsMaxRecall ==
    RecallForPrecisionDone =>
        LET reaching == ThresholdsReaching(lastCall.metric.minPrecision)
        IN /\ (valueResult.kind = "nan") <=> (reaching = {})
           /\ reaching # {} =>
                 /\ \E i \in reaching : IsRecallAt(valueResult, i)
                 /\ \A i \in reaching : IsAtLeastRecallAt(valueResult, i)

\* Precision 1 is required; the thresholds up to 0.5 do not reach it, a threshold
\* above does, with recall 1/2, and the thresholds above 0.995 have recall 0
C2_Witness ==
    /\ RecallForPrecisionDone
    /\ lastCall.metric.minPrecision = 100
    /\ 1 \notin ThresholdsReaching(100)
    /\ 51 \notin ThresholdsReaching(100)
    /\ 52 \in ThresholdsReaching(100)
    /\ valueResult.kind = "frac"
    /\ valueResult.num * 2 = valueResult.den
    /\ IsRecallAt(Frac(0, 1), 101)

\* No threshold reaches the minimum precision and the value is NaN
C2_WitnessNaN ==
    /\ RecallForPrecisionDone
    /\ Len(es.y_true) > 0
    /\ ThresholdsReaching(lastCall.metric.minPrecision) = {}
    /\ valueResult.kind = "nan"

\* The names of the metrics that metricsDict should have an entry for
ExpectedMetricNames ==
    {es.metrics[i].name : i \in {j \in 1..Len(es.metrics) :
        es.probabilitiesAvailable \/ ~es.metrics[j].requiresProbabilities}}

\* C3: without class probabilities metricsDict() has an entry for exactly the
\* metrics whose requiresProbabilities is false; with probabilities it has an entry
\* for every metric.
C3_MetricsDictEntries ==
    lastCall.op = "metricsDict" =>
        /\ raised = ""
        /\ DictKeys(dictResult) = ExpectedMetricNames

\* The part of C3 that the code satisfies: a dictionary that metricsDict() returns
\* has exactly the expected entries
C3_ReturnedDictEntries ==
    (lastCall.op = "metricsDict" /\ raised = "") => DictKeys(dictResult) = ExpectedMetricNames

\* metricsDict() on an object without probabilities whose metrics include
\* recallForPrecision (requiresProbabilities is false) raises ValueError
C3_RecallForPrecisionRaises ==
    /\ lastCall.op = "metricsDict"
    /\ ~es.probabilitiesAvailable
    /\ es.isBinary
    /\ raised = "ValueError"
    /\ \E i \in 1..Len(es.metrics) :
          /\ es.metrics[i].cls = "BinaryClassificationMetricRecallForPrecision"
          /\ ~es.metrics[i].requiresProbabilities

\* C4: a metric with requiresProbabilities = True is never computed without class
\* probabilities: computeValue raises ValueError instead of calling _computeValue
\* when the probabilities are None, and the constructor raises ValueError for an
\* additional metric that requires probabilities when there are none.
C4_NeverComputedWithoutProbabilities ==
    /\ \A c \in computeLog : c.metric.requiresProbabilities => ~c.probsIsNone
    /\ (lastCall.op = "computeValue" /\ lastCall.metric.requiresProbabilities
            /\ lastCall.probsIsNone)
          => (raised = "ValueError" /\ computeLog = {})
    /\ (lastCall.op = "__init__" /\ ctorArgs.probs.isNone /\ ~ctorArgs.additionalMetrics.isNone
            /\ \E i \in 1..Len(ctorArgs.additionalMetrics.items) :
                  ctorArgs.additionalMetrics.items[i].requiresProbabilities)
          => (raised = "ValueError" /\ ~es.constructed)

\* computeValue was called without probabilities on a metric that requires them
C4_Witness ==
    /\ lastCall.op = "computeValue"
    /\ lastCall.metric.requiresProbabilities
    /\ lastCall.probsIsNone
    /\ raised = "ValueError"

\* The constructor was called without probabilities and with an additional metric
\* that requires them
C4_WitnessConstructor ==
    /\ lastCall.op = "__init__"
    /\ ctorArgs.probs.isNone
    /\ ~ctorArgs.additionalMetrics.isNone
    /\ \E i \in 1..Len(ctorArgs.additionalMetrics.items) :
          ctorArgs.additionalMetrics.items[i].requiresProbabilities
    /\ raised = "ValueError"

\* The candidates that occur in the labels passed to the constructor
CandidatesInLabels ==
    {i \in 1..4 : \E j \in 1..Len(ctorArgs.labels) :
        PyEq(<<"1", "True", "'1'", "'True'">>[i], ctorArgs.labels[j])}

Constructed == lastCall.op = "__init__" /\ raised = ""

BinaryMetricClasses ==
    {"BinaryClassificationMetricPrecision", "BinaryClassificationMetricRecall",
     "BinaryClassificationMetricF1Score", "BinaryClassificationMetricRecallForPrecision"}

\* C5: with binaryPositiveLabel = GUESS, if labels has exactly two entries and
\* contains a candidate, the positive label is the first of the candidates 1, True,
\* "1", "True" that occurs in labels and isBinary is true, and otherwise the
\* positive label is None and isBinary is false; with binaryPositiveLabel = None the
\* problem is non-binary and the default metrics include no binary metric; isBinary
\* always equals (binaryPositiveLabel is not None).
C5_GuessPositiveLabel ==
    Constructed =>
        /\ es.isBinary = (es.binaryPositiveLabel # "None")
        /\ (ctorArgs.binaryPositiveLabel = "__guess"
               /\ Len(ctorArgs.labels) = 2 /\ CandidatesInLabels # {})
             => /\ es.isBinary
                /\ \E i \in CandidatesInLabels :
                      /\ es.binaryPositiveLabel = <<"1", "True", "'1'", "'True'">>[i]
                      /\ \A j \in CandidatesInLabels : i <= j
        /\ (ctorArgs.binaryPositiveLabel = "__guess"
               /\ ~(Len(ctorArgs.labels) = 2 /\ CandidatesInLabels # {}))
             => (es.binaryPositiveLabel = "None" /\ ~es.isBinary)
        /\ ctorArgs.binaryPositiveLabel = "None"
             => /\ ~es.isBinary
                /\ ctorArgs.metrics.isNone
                     => \A i \in 1..Len(es.metrics) : es.metrics[i].cls \notin BinaryMetricClasses

\* Two labels holding the candidates "1" and True, in that order: True is guessed;
\* written as the candidate found, 1, which equals True
C5_Witness ==
    /\ Constructed
    /\ ctorArgs.binaryPositiveLabel = "__guess"
    /\ ctorArgs.labels = <<"'1'", "True">>
    /\ es.binaryPositiveLabel = "1"
    /\ es.isBinary

\* Three labels with candidates among them: nothing is guessed
C5_WitnessThreeLabels ==
    /\ Constructed
    /\ ctorArgs.binaryPositiveLabel = "__guess"
    /\ Len(ctorArgs.labels) = 3
    /\ CandidatesInLabels # {}
    /\ ~es.isBinary

----------------------------------------------------------------------------
(* Properties of the comparisons *)

MultiReturned == cmpCall = "MultiDataEvaluationUtil.compareModels" /\ cmpRaised = ""

\* The positions of the rows of a model in a frame
RowsOf(df, name) == {i \in 1..Len(df.rows) : df.rows[i].modelName = name}

\* The column has a NaN in some row of the frame
HasNaN(df, c) ==
    \E i \in 1..Len(df.rows) :
       \E j \in 1..Len(df.columns) : df.columns[j] = c /\ df.rows[i].values[j].kind = "nan"

Elements(seq) == {seq[i] : i \in 1..Len(seq)}

RECURSIVE SumOfRows(_, _, _)
\* The sum of the (integer) values of column c in the rows at the given positions
SumOfRows(df, c, positions) ==
    IF positions = {} THEN 0
    ELSE LET i == CHOOSE x \in positions : TRUE
             j == CHOOSE y \in 1..Len(df.columns) : df.columns[y] = c
         IN df.rows[i].values[j].num + SumOfRows(df, c, positions \ {i})

\* C6: every column of allResultsDF with a NaN in any row is excluded from the mean
\* results and from the further aggregations (mean, std, min, max of the other
\* columns), and meanResultsDF has exactly one row per model name, holding for each
\* remaining metric the mean of the model's values over all data sets.
C6_NaNSafeAggregation ==
    MultiReturned =>
        LET all == cmpResult.allResultsDF
            mean == cmpResult.meanResultsDF
            aggs == cmpResult.furtherAggsDF
            remaining == {c \in Elements(all.columns) : ~HasNaN(all, c)}
        IN /\ Elements(mean.columns) = remaining
           /\ Elements(aggs.columns) =
                 {[op |-> o, column |-> c] : o \in {"mean", "std", "min", "max"}, c \in remaining}
           /\ Len(mean.rows) = Cardinality({all.rows[i].modelName : i \in 1..Len(all.rows)})
           /\ {mean.rows[i].modelName : i \in 1..Len(mean.rows)}
                 = {all.rows[i].modelName : i \in 1..Len(all.rows)}
           /\ \A i \in 1..Len(mean.rows) : \A j \in 1..Len(mean.columns) :
                 LET v == mean.rows[i].values[j]
                     rows == RowsOf(all, mean.rows[i].modelName)
                 IN /\ v.kind = "frac"
                    /\ v.num * Cardinality(rows) = v.den * SumOfRows(all, mean.columns[j], rows)

\* Metric B has no value for one model on the second data set and is excluded;
\* metric A remains, and the mean of model b over the two data sets is 3/2
C6_Witness ==
    /\ MultiReturned
    /\ cmpArgs.numDataSets = 2
    /\ HasNaN(cmpResult.allResultsDF, "B")
    /\ cmpResult.meanResultsDF.columns = <<"A">>
    /\ \E i \in 1..Len(cmpResult.meanResultsDF.rows) :
          /\ cmpResult.meanResultsDF.rows[i].modelName = "b"
          /\ cmpResult.meanResultsDF.rows[i].values[1].num * 2
                = cmpResult.meanResultsDF.rows[i].values[1].den * 3

\* The rows of the frame are in descending (rankMax) or ascending order of column c
RankedBy(df, c, rankMax) ==
    \E j \in 1..Len(df.columns) :
       /\ df.columns[j] = c
       /\ \A i \in 1..(Len(df.rows) - 1) :
             LET v == df.rows[i].values[j]
                 w == df.rows[i + 1].values[j]
             IN IF rankMax THEN v.num * w.den >= w.num * v.den
                ELSE v.num * w.den <= w.num * v.den

\* The rows of furtherAggsDF are in the model order of meanResultsDF
SameModelOrder ==
    [i \in 1..Len(cmpResult.furtherAggsDF.rows) |-> cmpResult.furtherAggsDF.rows[i].modelName]
       = [i \in 1..Len(cmpResult.meanResultsDF.rows) |-> cmpResult.meanResultsDF.rows[i].modelName]

\* C7 as stated: whenever columnNameForModelRanking names a metric of the compared
\* models, the rows of meanResultsDF are sorted by that metric, descending if
\* rankMax and ascending otherwise, and the rows of furtherAggsDF are in the same
\* model order.
C7_RankedWheneverMetric ==
    (MultiReturned /\ cmpArgs.column \in Elements(cmpResult.allResultsDF.columns)) =>
        /\ RankedBy(cmpResult.meanResultsDF, cmpArgs.column, cmpArgs.maxOrAscending)
        /\ SameModelOrder

\* C7, amended: whenever columnNameForModelRanking names a column of meanResultsDF,
\* i.e. a metric without NaN in any row of allResultsDF, the rows of meanResultsDF
\* are sorted by it, descending if rankMax and ascending otherwise; the rows of
\* furtherAggsDF are always in the model order of meanResultsDF.
C7_RankedWheneverColumnOfMeans ==
    MultiReturned =>
        /\ cmpArgs.column \in Elements(cmpResult.meanResultsDF.columns)
              => RankedBy(cmpResult.meanResultsDF, cmpArgs.column, cmpArgs.maxOrAscending)
        /\ (cmpArgs.column \in Elements(cmpResult.allResultsDF.columns)
               /\ ~HasNaN(cmpResult.allResultsDF, cmpArgs.column))
              => cmpArgs.column \in Elements(cmpResult.meanResultsDF.columns)
        /\ SameModelOrder

\* Ranking by the maximum of A puts model b (mean 3/2) before model a (mean 1), in
\* both frames
C7_Witness ==
    /\ MultiReturned
    /\ cmpArgs.column = "A"
    /\ cmpArgs.maxOrAscending
    /\ cmpArgs.numDataSets = 2
    /\ cmpArgs.column \in Elements(cmpResult.meanResultsDF.columns)
    /\ [i \in 1..Len(cmpResult.meanResultsDF.rows) |-> cmpResult.meanResultsDF.rows[i].modelName]
          = <<"b", "a">>
    /\ [i \in 1..Len(cmpResult.furtherAggsDF.rows) |-> cmpResult.furtherAggsDF.rows[i].modelName]
          = <<"b", "a">>
    /\ cmpResult.meanResultsDF.rows[1].values[1].num * 2 = cmpResult.meanResultsDF.rows[1].values[1].den * 3

\* The ranking metric A has a NaN for model b on the second data set: the frames
\* are left in the order of the model names, a (A is 1 on both data sets) before
\* b (A is 3 on the first data set), although the maximum was asked for
C7_UnrankedState ==
    /\ MultiReturned
    /\ cmpArgs.column = "A"
    /\ cmpArgs.maxOrAscending
    /\ HasNaN(cmpResult.allResultsDF, "A")
    /\ cmpArgs.modelFactories
          = <<ModelFactory("b", "b", TRUE, TRUE, "nanLater", "one"),
              ModelFactory("a", "a", TRUE, TRUE, "one", "two")>>
    /\ [i \in 1..Len(cmpResult.meanResultsDF.rows) |-> cmpResult.meanResultsDF.rows[i].modelName]
          = <<"a", "b">>

\* The events of the history of the given kinds
Events(kinds) == {i \in 1..Len(cmpLog) : cmpLog[i].ev \in kinds}

\* The models created for data set d are a mixture of regression and
\* classification models
IsMixture(d) ==
    /\ \E i \in Events({"create"}) : cmpLog[i].dataset = d /\ cmpLog[i].isRegression
    /\ \E i \in Events({"create"}) : cmpLog[i].dataset = d /\ ~cmpLog[i].isRegression

\* C8: for every data set that compareModels processes, if the models created for it
\* are a mixture of regression and classification models, ValueError is raised and
\* none of these models is fitted or evaluated; the models evaluated are either all
\* regression models or all classification models.
C8_MixtureRaisesForEveryDataSet ==
    cmpCall = "MultiDataEvaluationUtil.compareModels" =>
        /\ \A d \in 1..cmpArgs.numDataSets :
              IsMixture(d) =>
                 /\ cmpRaised = "ValueError"
                 /\ \A i \in Events({"fit", "eval", "crossval"}) : cmpLog[i].dataset # d
        /\ \A i, j \in Events({"eval", "crossval"}) :
              cmpLog[i].dataset = cmpLog[j].dataset
                 => cmpLog[i].isRegression = cmpLog[j].isRegression

\* The part of C8 that the code satisfies: a mixture among the models of the first
\* data set raises ValueError before any model is fitted or evaluated
C8_MixtureRaisesForFirstDataSet ==
    (cmpCall = "MultiDataEvaluationUtil.compareModels" /\ IsMixture(1)) =>
        /\ cmpRaised = "ValueError"
        /\ Events({"fit", "eval", "crossval", "visit"}) = {}

\* A mixture among the models of the second data set: no exception, and a
\* regression model and a classification model were fitted and evaluated on it
C8_LaterMixtureEvaluated ==
    /\ cmpCall = "MultiDataEvaluationUtil.compareModels"
    /\ cmpRaised = ""
    /\ IsMixture(2)
    /\ \E i, j \in Events({"eval"}) :
          /\ cmpLog[i].dataset = 2 /\ cmpLog[j].dataset = 2
          /\ cmpLog[i].isRegression /\ ~cmpLog[j].isRegression

\* Every factory produces models of a fixed name and the names are distinct
FixedDistinctNames ==
    /\ \A f \in 1..Len(cmpArgs.modelFactories) :
          cmpArgs.modelFactories[f].name = cmpArgs.modelFactories[f].laterName
    /\ \A f, g \in 1..Len(cmpArgs.modelFactories) :
          f # g => cmpArgs.modelFactories[f].name # cmpArgs.modelFactories[g].name

\* The eval stats collected under a model name
EvalStatsByName(name) ==
    LET entries == {i \in 1..Len(cmpResult.evalStatsByModelName) :
                       cmpResult.evalStatsByModelName[i].name = name}
    IN IF entries = {} THEN <<>>
       ELSE cmpResult.evalStatsByModelName[CHOOSE i \in entries : TRUE].value

\* C9: with factories of fixed, distinct model names, after compareModels over k data
\* sets each factory has been called exactly k times, once per data set, and no
\* model is fitted on two data sets; evalStatsByModelName[name] holds exactly k eval
\* stats in the order of the data sets; allResultsDF has exactly one row per data
\* set and model.
C9_OneModelPerFactoryAndDataSet ==
    (MultiReturned /\ FixedDistinctNames) =>
        LET k == cmpArgs.numDataSets
            n == Len(cmpArgs.modelFactories)
            all == cmpResult.allResultsDF
        IN /\ \A f \in 1..n :
                 /\ Cardinality({i \in Events({"create"}) : cmpLog[i].factory = f}) = k
                 /\ \A d \in 1..k :
                       Cardinality({i \in Events({"create"}) :
                                       cmpLog[i].factory = f /\ cmpLog[i].dataset = d}) = 1
           /\ \A i, j \in Events({"fit", "crossval"}) :
                 (cmpLog[i].factory = cmpLog[j].factory /\ cmpLog[i].call = cmpLog[j].call)
                    => cmpLog[i].dataset = cmpLog[j].dataset
           /\ Len(cmpResult.evalStatsByModelName) = n
           /\ \A f \in 1..n :
                 LET stats == EvalStatsByName(cmpArgs.modelFactories[f].name)
                 IN /\ Len(stats) = k
                    /\ \A d \in 1..k : stats[d].dataset = d /\ stats[d].factory = f
           /\ Len(all.rows) = n * k
           /\ \A f \in 1..n : \A d \in 1..k :
                 Cardinality({i \in 1..Len(all.rows) :
                                 /\ all.rows[i].key = d
                                 /\ all.rows[i].modelName = cmpArgs.modelFactories[f].name}) = 1

\* Two factories of fixed, distinct names were compared on two data sets
C9_Witness ==
    /\ MultiReturned
    /\ FixedDistinctNames
    /\ Len(cmpArgs.modelFactories) = 2
    /\ cmpArgs.numDataSets = 2
    /\ Len(cmpResult.allResultsDF.rows) = 4

\* C10: every call of EvaluationUtil.compareModels with useCrossValidation = True
\* and fitModels = False raises ValueError, before any model is fitted or evaluated
\* and before any visitor is called.
C10_CrossValidationWithoutFitRaises ==
    (cmpCall = "EvaluationUtil.compareModels" /\ cmpArgs.useCrossValidation
        /\ ~cmpArgs.fitModels)
       => /\ cmpRaised = "ValueError"
          /\ Events({"fit", "eval", "crossval", "visit"}) = {}

\* The part of C10 that the code satisfies: with at least one model the call raises
\* ValueError before anything is fitted, evaluated or visited
C10_RaisesWithModels ==
    (cmpCall = "EvaluationUtil.compareModels" /\ cmpArgs.useCrossValidation
        /\ ~cmpArgs.fitModels /\ Len(cmpArgs.modelFactories) > 0)
       => /\ cmpRaised = "ValueError"
          /\ cmpLog = <<>>

\* The call without models: the check is never reached and the empty list of
\* results has no column modelName
C10_NoModelsKeyError ==
    /\ cmpCall = "EvaluationUtil.compareModels"
    /\ cmpArgs.useCrossValidation
    /\ ~cmpArgs.fitModels
    /\ cmpArgs.modelFactories = <<>>
    /\ cmpRaised = "KeyError"

----------------------------------------------------------------------------
(* Properties of evaluators, splitters and performSimpleEvaluation *)

\* The call that constructed (or failed to construct) a classification evaluator
\* without a parameter object and with old-style keyword arguments
OldStyleClassificationCall ==
    /\ evCall = "VectorClassificationModelEvaluator"
    /\ evArgs.params = NoParams
    /\ evArgs.kwArgs.keys # {}

\* C11: constructing VectorClassificationModelEvaluator with params=None and
\* old-style keyword arguments has the outcome of constructing it with
\* params=VectorClassificationModelEvaluatorParams.fromOldKwArgs(**kwArgs): the
\* same evaluator with these params, or the same exception.
C11_OldKwArgsClassification ==
    OldStyleClassificationCall =>
        \E permutation \in PermutationsOf(evArgs.numDataPoints) :
            \E expected \in {EvaluatorWithParams("VectorClassificationModelEvaluator",
                                  DataOf(evArgs), evArgs.testData,
                                  ClassificationFromOldKwArgsExpanded(evArgs.kwArgs),
                                  permutation)} :
                /\ evRaised = expected.raised
                /\ evEvaluator = expected.evaluator

\* The regression evaluator does have the outcome of the construction with
\* params=VectorRegressionModelEvaluatorParams.fromOldKwArgs(**kwArgsOldParams)
C11_OldKwArgsRegression ==
    (/\ evCall = "VectorRegressionModelEvaluator"
     /\ evArgs.params = NoParams
     /\ evArgs.kwArgs.keys # {}) =>
        \E permutation \in PermutationsOf(evArgs.numDataPoints) :
            \E expected \in {VectorModelEvaluatorInit("VectorRegressionModelEvaluator",
                                  DataOf(evArgs), evArgs.testData,
                                  RegressionFromOldKwArgs(
                                      KwArg(evArgs.kwArgs, "dataSplitter", NoSplitter),
                                      KwArg(evArgs.kwArgs, "testFraction", NoFraction),
                                      KwArg(evArgs.kwArgs, "randomSeed", DefaultRandomSeed),
                                      KwArg(evArgs.kwArgs, "shuffle", TRUE),
                                      KwArg(evArgs.kwArgs, "additionalMetrics", "None"),
                                      KwArg(evArgs.kwArgs, "outputDataFrameTransformer", "None")),
                                  permutation)} :
                evArgs.kwArgs.keys \subseteq {"dataSplitter", "testFraction", "randomSeed",
                                              "shuffle", "additionalMetrics",
                                              "outputDataFrameTransformer"}
                => /\ evRaised = expected.raised
                   /\ evEvaluator = expected.evaluator

\* A classification evaluator constructed with test data and with
\* computeProbabilities=True as an old-style keyword argument: the dictionary of
\* the keyword arguments is its data splitter and computeProbabilities is False
C11_DictAsDataSplitter ==
    /\ OldStyleClassificationCall
    /\ ~evArgs.testData.isNone
    /\ evArgs.kwArgs.keys = {"computeProbabilities"}
    /\ evArgs.kwArgs.computeProbabilities = "True"
    /\ evRaised = ""
    /\ evEvaluator.constructed
    /\ evEvaluator.params.dataSplitter.kind = "dict"
    /\ evEvaluator.params.computeProbabilities = "False"

\* A classification evaluator that is to split the data by testFraction, given as
\* an old-style keyword argument, is not constructed: the dictionary has no split
C11_SplitByDictRaises ==
    /\ OldStyleClassificationCall
    /\ evArgs.testData.isNone
    /\ evArgs.kwArgs.keys = {"testFraction"}
    /\ evArgs.kwArgs.testFraction = Fraction(1, 2)
    /\ evArgs.numDataPoints > 0
    /\ evRaised = "AttributeError"

\* The positions of the log at which the event is ev with the given onTrainingData
LogPositions(ev, onTrainingData) ==
    {i \in 1..Len(evLog) : evLog[i].ev = ev /\ evLog[i].onTrainingData = onTrainingData}

\* C15: performSimpleEvaluation with showPlots=True and createPlots=False raises
\* ValueError before any fit or evaluation. Otherwise the model is never fitted
\* if fitModel is false and at most once if it is true; when the call returns
\* with fitModel true, the model was fitted exactly once, on the evaluator's
\* training data, before any evaluation; the one evaluation on the test data
\* precedes the evaluation on the training data, which takes place iff
\* additionalEvaluationOnTrainingData; the result is the test-data evaluation.
C15_SimpleEvaluationOrder ==
    evCall = "performSimpleEvaluation" =>
        IF evArgs.showPlots /\ ~evArgs.createPlots
        THEN evRaised = "ValueError" /\ evLog = <<>> /\ evResult.isNone
        ELSE /\ evRaised # "ValueError" \/ evLog = <<>>
             /\ ~evArgs.fitModel => LogPositions("fit", TRUE) = {}
             /\ Cardinality(LogPositions("fit", TRUE)) <= 1
             /\ LogPositions("fit", FALSE) = {}
             /\ \A i \in LogPositions("fit", TRUE) :
                    /\ evLog[i].data = evEvaluator.trainingData.points
                    /\ \A j \in 1..Len(evLog) : evLog[j].ev = "eval" => i < j
             /\ evRaised = "" =>
                    /\ evEvaluator.constructed
                    /\ evArgs.fitModel => Cardinality(LogPositions("fit", TRUE)) = 1
                    /\ Cardinality(LogPositions("eval", FALSE)) = 1
                    /\ Cardinality(LogPositions("eval", TRUE))
                          = IF evArgs.additionalEvaluationOnTrainingData THEN 1 ELSE 0
                    /\ \A i \in LogPositions("eval", FALSE) :
                           /\ evLog[i].data = evEvaluator.testData.points
                           /\ \A j \in LogPositions("eval", TRUE) : i < j
                    /\ \A j \in LogPositions("eval", TRUE) :
                           evLog[j].data = evEvaluator.trainingData.points
                    /\ evResult = VectorModelEvaluationData(evEvaluator.testData, FALSE,
                                                             NumEvalStats(evArgs.model))

\* A model was fitted on the training data, evaluated on the test data and then
\* on the training data, which differ, and the test-data evaluation was returned
C15_Witness ==
    /\ evCall = "performSimpleEvaluation"
    /\ evRaised = ""
    /\ evArgs.fitModel /\ evArgs.additionalEvaluationOnTrainingData
    /\ evEvaluator.trainingData.points # evEvaluator.testData.points
    /\ evEvaluator.testData.points # <<>>
    /\ Len(evLog) >= 3
    /\ evLog[1].ev = "fit"
    /\ evResult.data = evEvaluator.testData.points

\* showPlots without createPlots: ValueError, nothing fitted or evaluated
C15_WitnessValueError ==
    /\ evCall = "performSimpleEvaluation"
    /\ evArgs.showPlots /\ ~evArgs.createPlots /\ evArgs.fitModel
    /\ evArgs.numDataPoints > 0
    /\ evRaised = "ValueError"

\* k = floor(n * f) for the float product n * f: k <= n * f < k + 1
IsFloorOfProduct(k, n, f) ==
    /\ ~FloatLess(FloatTimes(n, f), FloatOf(k, 1))
    /\ FloatLess(FloatTimes(n, f), FloatOf(k + 1, 1))

\* The data points of A followed by those of B
PointsOf(A, B) == A.points \o B.points

\* Every data point of the data set of n points occurs exactly once in the points
ExactlyOnce(points, n) ==
    /\ Len(points) = n
    /\ \A pos \in 0..(n - 1) :
          Cardinality({i \in 1..Len(points) : points[i] = DataOfSize(n).points[pos + 1]}) = 1

\* C16: DataSplitterFractional rejects fractions outside [0, 1]; split(data) with
\* n = len(data) returns (A, B) with |A| = floor(n * fractionalSizeOfFirstSet), the
\* product being the float product of the program, and |B| = n - |A|, every
\* position of the data occurs in exactly one of A and B, and without shuffling A
\* is the first |A| data points in order and B the rest.  An evaluator that was
\* created from a test fraction has disjoint training and test sets that together
\* cover the data, the training set being the first set of the split by
\* 1 - test fraction.
C16_FractionalSplit ==
    /\ (evCall = "split" /\ ~evArgs.fraction.isNone) =>
          /\ (evRaised = "Exception") <=> (\/ FloatLess(evArgs.fraction, FloatOf(0, 1))
                                           \/ FloatLess(FloatOf(1, 1), evArgs.fraction))
          /\ ~evArgs.dataIsNone => evRaised \in {"", "Exception"}
          /\ evRaised = "" =>
                /\ IsFloorOfProduct(Len(evSplit.A.points), evArgs.numDataPoints, evArgs.fraction)
                /\ Len(evSplit.B.points) = evArgs.numDataPoints - Len(evSplit.A.points)
                /\ ExactlyOnce(PointsOf(evSplit.A, evSplit.B), evArgs.numDataPoints)
                /\ ~evArgs.shuffle =>
                      PointsOf(evSplit.A, evSplit.B) = DataOfSize(evArgs.numDataPoints).points
    /\ (/\ evCall \notin {"none", "split"}
        /\ evEvaluator.constructed
        /\ evEvaluator.params.dataSplitter.kind = "DataSplitterFractional"
        /\ ~evEvaluator.params.fractionalSplitTestFraction.isNone
        /\ evArgs.testData.isNone) =>
          /\ ExactlyOnce(PointsOf(evEvaluator.trainingData, evEvaluator.testData),
                         evArgs.numDataPoints)
          /\ IsFloorOfProduct(Len(evEvaluator.trainingData.points), evArgs.numDataPoints,
                              OneMinus(evEvaluator.params.fractionalSplitTestFraction))

\* A shuffled split of three data points by 1/2: one point in A, which is not the
\* first one, and two in B
C16_Witness ==
    /\ evCall = "split" /\ evRaised = ""
    /\ evArgs.shuffle /\ evArgs.numDataPoints = 3 /\ evArgs.fraction = Fraction(1, 2)
    /\ Len(evSplit.A.points) = 1 /\ Len(evSplit.B.points) = 2
    /\ evSplit.A.points[1] # DataOfSize(3).points[1]

\* An evaluator created from a test fraction with non-empty training and test sets
C16_WitnessEvaluator ==
    /\ evCall = "VectorRegressionModelEvaluator" /\ evRaised = ""
    /\ evArgs.testData.isNone
    /\ evEvaluator.constructed
    /\ evEvaluator.params.fractionalSplitTestFraction = Fraction(1, 3)
    /\ Len(evEvaluator.trainingData.points) = 2
    /\ Len(evEvaluator.testData.points) = 1

\* Three data points split by the float of 1/3, which is below 1/3: the float
\* product is 1 and A has one data point
C16_WitnessRoundedProduct ==
    /\ evCall = "split" /\ evRaised = ""
    /\ evArgs.numDataPoints = 3 /\ evArgs.fraction = Fraction(1, 3)
    /\ FloatTimes(3, evArgs.fraction) = FloatOf(1, 1)
    /\ Len(evSplit.A.points) = 1

\* An evaluator of five data points with the test fraction 0.8: 1 - 0.8 is below
\* the float 0.2, the product with 5 is below 1, no data point is training data
C16_WitnessRoundedFraction ==
    /\ evCall = "VectorRegressionModelEvaluator" /\ evRaised = ""
    /\ evArgs.numDataPoints = 5
    /\ evEvaluator.params.fractionalSplitTestFraction = Fraction(4, 5)
    /\ FloatLess(evEvaluator.params.dataSplitter.fractionalSizeOfFirstSet, Fraction(1, 5))
    /\ Len(evEvaluator.trainingData.points) = 0
    /\ Len(evEvaluator.testData.points) = 5

\* A fraction outside of [0, 1] is rejected
C16_WitnessRejected ==
    /\ evCall = "split" /\ evArgs.fraction = Fraction(3, 2) /\ evRaised = "Exception"

----------------------------------------------------------------------------
(* Column generators: index of the result, caching *)

\* The rows of the last data frame whose key had no value in the cache when
\* generate_column began
RowsWithoutCachedValue == SelectSeq(cgDf, LAMBDA key : cgCacheBefore[key] = "None")

\* The result has the name of the generator's column and the index of the data
\* frame, with one value per row
ResultHasIndexOfDf ==
    /\ cgResult.name = cgGen.generatedColumnName
    /\ cgResult.index = cgDf
    /\ Len(cgResult.values) = Len(cgDf)

\* C12: for every column generator, with or without cache and whatever the
\* cache holds, generate_column(df) returns a series named generatedColumnName
\* whose index is that of df: the same keys in the same order, one value per row.
C12_SameIndexAsInput == cgCalled => ResultHasIndexOfDf

\* C12, the generators other than IndexCachedColumnGenerator: the result has the
\* index of the data frame.
C12_OtherGenerators ==
    (cgCalled /\ cgGen.cls # "IndexCachedColumnGenerator") => ResultHasIndexOfDf

\* C12, IndexCachedColumnGenerator with a cache that holds a value for none or
\* for all of the keys of the data frame: the result has the index of the data
\* frame.
C12_EmptyOrCompleteCache ==
    (/\ cgCalled
     /\ cgGen.cls = "IndexCachedColumnGenerator"
     /\ RowsWithoutCachedValue \in {<<>>, cgDf}) => ResultHasIndexOfDf

\* An IndexCachedColumnGenerator whose cache held a value for the second row only
\* returned the series with the cached row first
C12_CachedRowsFirst ==
    /\ cgCalled
    /\ cgGen.cls = "IndexCachedColumnGenerator"
    /\ cgDf = <<"a", "b">>
    /\ cgCacheBefore["a"] = "None"
    /\ cgCacheBefore["b"] = "stored"
    /\ cgResult.index = <<"b", "a">>
    /\ cgResult.values = <<"stored", cgGen.valueOf["a"]>>
    /\ cgResult.name = cgGen.generatedColumnName

\* A call of generate_column with the data frame of the state, by a generator
\* of non-null values
SecondCallOnSameDf ==
    /\ cgCalled
    /\ cgCalled'
    /\ cgGen.cls = "IndexCachedColumnGenerator"
    /\ \A key \in IndexKeys : cgGen.valueOf[key] # "None"
    /\ cgDf' = cgDf
    /\ cgCacheBefore' = cgCache

\* The wrapped generator was applied to the rows without cached value and to no
\* others, not at all if there are none, and the cache holds what it generated
OnlyMissingRowsGenerated ==
    /\ cgInvoked = IF RowsWithoutCachedValue = <<>> THEN <<>>
                   ELSE <<RowsWithoutCachedValue>>
    /\ \A key \in IndexKeys :
          cgCache[key] = IF \E i \in 1..Len(RowsWithoutCachedValue) :
                                RowsWithoutCachedValue[i] = key
                         THEN cgGen.valueOf[key]
                         ELSE cgCacheBefore[key]

\* The second call did not invoke the wrapped generator and returned, for every
\* key, the value of the first call
SameValuesWithoutGeneration ==
    /\ cgInvoked' = <<>>
    /\ Len(cgResult'.index) = Len(cgResult.index)
    /\ \A i, j \in 1..Len(cgResult.index) :
          cgResult.index[i] = cgResult'.index[j] => cgResult.values[i] = cgResult'.values[j]
    /\ \A i \in 1..Len(cgResult.index) :
          \E j \in 1..Len(cgResult.index) : cgResult'.index[j] = cgResult.index[i]

\* C13: an IndexCachedColumnGenerator applies the wrapped generator only to the
\* rows whose key has no value in the cache, stores every generated value in the
\* cache under its key, and does not invoke the wrapped generator if every key
\* is cached; so, for a generator of non-null values, a second generate_column on
\* the same data frame does not invoke the wrapped generator and returns the
\* same value for every key.
C13_CachedGeneration ==
    /\ []((cgCalled /\ cgGen.cls = "IndexCachedColumnGenerator") => OnlyMissingRowsGenerated)
    /\ [][SecondCallOnSameDf => SameValuesWithoutGeneration]_vars

\* A second call on a data frame of which one row was cached before the first
\* call and two were generated in it
C13_Witness ==
    /\ cgRepeated
    /\ cgGen.cls = "IndexCachedColumnGenerator"
    /\ \A key \in IndexKeys : cgGen.valueOf[key] # "None"
    /\ Len(cgDf) = 3
    /\ cgInvoked = <<>>
    /\ \E i, j \in 1..3 : cgResult.values[i] = "stored" /\ cgResult.values[j] = "va"

\* A call that generated the values of some rows and took the others from the cache
C13_WitnessPartlyCached ==
    /\ cgCalled
    /\ cgGen.cls = "IndexCachedColumnGenerator"
    /\ Len(cgDf) = 3
    /\ Len(RowsWithoutCachedValue) = 2
    /\ cgInvoked = <<RowsWithoutCachedValue>>

\* A generator of a null value generates it anew in a second call
C13_WitnessNullGeneratedAgain ==
    /\ cgRepeated
    /\ cgGen.cls = "IndexCachedColumnGenerator"
    /\ cgGen.valueOf["b"] = "None"
    /\ cgCacheBefore = cgCache
    /\ cgInvoked = <<<<"b">>>>

----------------------------------------------------------------------------
(* Restoring of states: renamed and new optional properties *)

\* The old and the new names of the renamed properties, the new optional properties
OldNames == {psRenamed.items[i][1] : i \in 1..Len(psRenamed.items)}

NewNames == {psRenamed.items[i][2] : i \in 1..Len(psRenamed.items)}

OptionalNames == {psOptional.items[i] : i \in 1..Len(psOptional.items)}

\* Every renamed property of the state is under its new name, the old name is removed
RenamedMoved ==
    \A i \in 1..Len(psRenamed.items) :
        psState[psRenamed.items[i][1]] # Absent =>
            /\ psHandled[psRenamed.items[i][2]] = psState[psRenamed.items[i][1]]
            /\ psHandled[psRenamed.items[i][1]] = Absent

\* Every new optional property is in the state: None if it was missing from the
\* state, its value otherwise
OptionalDefaulted ==
    \A name \in OptionalNames :
        psHandled[name] = IF psState[name] = Absent THEN "None" ELSE psState[name]

\* The renamed properties of the state and the names they are moved to
MovedNames ==
    {psRenamed.items[i][k] : i \in {j \in 1..Len(psRenamed.items) :
                                        psState[psRenamed.items[j][1]] # Absent},
                             k \in 1..2}

\* The entries of the other names are as they were
OthersUnchanged ==
    \A name \in PropertyNames \ (MovedNames \cup OptionalNames) :
        psHandled[name] = psState[name]

\* The object is restored with what it held when it was persisted: every value of
\* the old state is an attribute of the object, under its name or its new name,
\* unless a renamed property of the state replaced it
Restored ==
    \A name \in PropertyNames :
        psState[name] # Absent =>
            \/ psDict[name] = psState[name]
            \/ \E i \in 1..Len(psRenamed.items) :
                  /\ psRenamed.items[i][1] = name
                  /\ psDict[psRenamed.items[i][2]] = psState[name]
            \/ \E i \in 1..Len(psRenamed.items) :
                  /\ psRenamed.items[i][2] = name
                  /\ psState[psRenamed.items[i][1]] # Absent

\* The object's __dict__ is the handled state, given to the super class's
\* __setstate__ if it has one
DictFromHandled ==
    psDict = IF psSuperClass = "Vectoriser" THEN VectoriserSetstate(psHandled) ELSE psHandled

\* Vectoriser.__setstate__: _resultType and name are None if the state lacked them,
\* every entry of the state is kept
VectoriserRestored ==
    psCall = "Vectoriser.__setstate__" =>
        \A name \in PropertyNames :
            psDict[name] = IF psState[name] = Absent /\ name \in {"_resultType", "name"}
                           THEN "None" ELSE psState[name]

\* C14: objects are restored from an old state: setstate moves every renamed
\* property to its new name and removes the old name, sets every new optional property that is missing to None without
\* overwriting present values, and leaves the other entries unchanged;
\* Vectoriser.__setstate__ restores a state lacking _resultType or name with
\* these set to None.
C14_SetstateRenamesAndDefaults ==
    /\ psCall = "setstate" =>
          /\ RenamedMoved /\ OptionalDefaulted /\ OthersUnchanged
          /\ DictFromHandled /\ Restored
    /\ VectoriserRestored

\* No name is the new name of two properties or both an old and a new name,
\* and no new optional property is an old or a new name of a renamed property
DistinctNames ==
    /\ \A i, j \in 1..Len(psRenamed.items) :
          /\ psRenamed.items[i][2] # psRenamed.items[j][1]
          /\ i # j => psRenamed.items[i][2] # psRenamed.items[j][2]
    /\ OptionalNames \cap (OldNames \cup NewNames) = {}

\* C14, for renamings without a name that is the new name of two properties or
\* both an old and a new name, and new optional properties that are neither old
\* nor new names of renamed properties: objects are restored from an old state,
\* setstate moves every renamed property of the state to its new name and removes
\* the old name, sets every new optional property that is missing from the state
\* to None without overwriting present values, and leaves the other entries
\* unchanged; Vectoriser.__setstate__ restores a state lacking _resultType or
\* name with these set to None.
C14_SetstateDistinctNames ==
    /\ (psCall = "setstate" /\ DistinctNames) =>
          /\ RenamedMoved /\ OptionalDefaulted /\ OthersUnchanged
          /\ DictFromHandled /\ Restored
    /\ VectoriserRestored

\* A state with the renamed property "a", one new optional property present and
\* one missing, restored
C14_Witness ==
    /\ psCall = "setstate"
    /\ psSuperClass = "object"
    /\ psRenamed.items = <<<<"a", "b">>>>
    /\ psOptional.items = <<"_resultType", "name">>
    /\ psState = [name \in PropertyNames |-> IF name \in {"a", "name"} THEN PickledValue(name) ELSE Absent]
    /\ psDict = [name \in PropertyNames |->
                    CASE name = "a" -> Absent [] name = "b" -> "va"
                      [] name = "_resultType" -> "None" [] OTHER -> "vn"]

\* A vectoriser restored from a state without _resultType and name
C14_WitnessVectoriser ==
    /\ psCall = "Vectoriser.__setstate__"
    /\ psState["a"] = "va"
    /\ psState["_resultType"] = Absent
    /\ psState["name"] = Absent
    /\ psDict["a"] = "va"
    /\ psDict["_resultType"] = "None"
    /\ psDict["name"] = "None"

\* A new optional property that is the new name of a renamed property of the
\* state has the value of that property, not None
C14_OptionalIsNewName ==
    /\ psCall = "setstate"
    /\ psRenamed.items = <<<<"a", "b">>>>
    /\ psOptional.items = <<"b">>
    /\ psState["a"] = "va"
    /\ psState["b"] = Absent
    /\ psHandled["b"] = "va"

\* With the renamings a -> b, b -> name the value of "a" is moved on to "name"
C14_ChainOfRenamings ==
    /\ psCall = "setstate"
    /\ psRenamed.items = <<<<"a", "b">>, <<"b", "name">>>>
    /\ psState["a"] = "va"
    /\ psHandled["a"] = Absent
    /\ psHandled["b"] = Absent
    /\ psHandled["name"] = "va"

----------------------------------------------------------------------------
(* Collections of classification statistics: the global statistics *)

RECURSIVE SamplesBefore(_)
\* The number of samples of the members before the i-th
SamplesBefore(i) ==
    IF i = 1 THEN 0 ELSE SamplesBefore(i - 1) + Len(gcList[i - 1].es.y_true)

HasProbabilities(i) == ~gcList[i].es.y_predictedClassProbabilities.isNone

\* The returned object holds the samples of the members in the order of the list
SamplesInListOrder ==
    /\ Len(gcReturned.es.y_true) = SamplesBefore(Len(gcList) + 1)
    /\ Len(gcReturned.y_predicted) = SamplesBefore(Len(gcList) + 1)
    /\ \A i \in 1..Len(gcList) : \A k \in 1..Len(gcList[i].es.y_true) :
          /\ gcReturned.es.y_true[SamplesBefore(i) + k] = gcList[i].es.y_true[k]
          /\ gcReturned.y_predicted[SamplesBefore(i) + k] = gcList[i].y_predicted[k]

\* The returned object holds, row after row, the probabilities of the members
\* if the first member has probabilities, and none otherwise
ProbabilitiesInListOrder ==
    IF HasProbabilities(1)
    THEN /\ ~gcReturned.es.y_predictedClassProbabilities.isNone
         /\ Len(gcReturned.es.y_predictedClassProbabilities.rows) = SamplesBefore(Len(gcList) + 1)
         /\ \A i \in 1..Len(gcList) : \A k \in 1..Len(gcList[i].es.y_true) :
               \A label \in {"0", "1"} :
                  /\ HasProbabilities(i)
                  /\ gcReturned.es.y_predictedClassProbabilities.rows[SamplesBefore(i) + k][
                         ColumnIndex(gcReturned.es.y_predictedClassProbabilities, label)]
                     = gcList[i].es.y_predictedClassProbabilities.rows[k][
                         ColumnIndex(gcList[i].es.y_predictedClassProbabilities, label)]
    ELSE gcReturned.es.y_predictedClassProbabilities.isNone

\* The calls so far returned one and the same object, made from the members as
\* described
GlobalStatsReturned ==
    /\ gcRaised = ""
    /\ ~gcReturned.isNone
    /\ gcReturned.es.constructed
    /\ SamplesInListOrder
    /\ ProbabilitiesInListOrder
    /\ gcReturned.es.binaryPositiveLabel = gcList[1].es.binaryPositiveLabel
    /\ gcReturned.es.metrics = gcList[1].es.metrics
    /\ gcReturned = gcGlobal
    /\ gcReturned.id = 1
    /\ gcConstructions = 1

\* C17: for every non-empty list, getGlobalStats returns statistics whose y_true
\* and y_predicted are the concatenations of the members' in list order, whose
\* class probabilities are the row-wise concatenation of the members'
\* probabilities if the first member has probabilities and None otherwise, whose
\* positive label and metrics are those of the first member; repeated calls
\* return the same cached object.
C17_GlobalStatsOfEveryList ==
    (gcCalls >= 1 /\ Len(gcList) >= 1) => GlobalStatsReturned

\* C17, for the non-empty lists in which every member has probabilities if the
\* first has: getGlobalStats returns statistics whose y_true and y_predicted are
\* the concatenations of the members' in list order, whose class probabilities
\* are the row-wise concatenation of the members' probabilities if the first
\* member has probabilities and None otherwise, whose positive label and metrics
\* are those of the first member; repeated calls return the same cached object.
C17_GlobalStatsOfUniformLists ==
    (/\ gcCalls >= 1
     /\ Len(gcList) >= 1
     /\ HasProbabilities(1) => \A i \in 1..Len(gcList) : HasProbabilities(i))
        => GlobalStatsReturned

\* Two calls for two members with one sample each and probabilities with the
\* columns in different orders
C17_Witness ==
    /\ gcCalls = 2
    /\ Len(gcList) = 2
    /\ gcList[1].es.y_predictedClassProbabilities = DataFrame(<<"1", "0">>, <<<<250, 750>>>>)
    /\ gcList[2].es.y_predictedClassProbabilities = DataFrame(<<"0", "1">>, <<<<250, 750>>>>)
    /\ gcList[1].es.y_true = <<"0">>
    /\ gcList[2].es.y_true = <<"1">>
    /\ gcList[1].es.binaryPositiveLabel = "None"
    /\ gcList[2].es.binaryPositiveLabel = "1"
    /\ gcReturned.id = 1
    /\ gcReturned.es.y_true = <<"0", "1">>
    /\ gcReturned.es.y_predictedClassProbabilities
          = DataFrame(<<"1", "0">>, <<<<250, 750>>, <<750, 250>>>>)
    /\ gcReturned.es.binaryPositiveLabel = "None"
    /\ Len(gcReturned.es.metrics) = 3

\* A first member without probabilities: the global statistics have none,
\* although the second member has
C17_WitnessWithoutProbabilities ==
    /\ gcCalls = 2
    /\ Len(gcList) = 2
    /\ ~HasProbabilities(1)
    /\ HasProbabilities(2)
    /\ Len(gcList[2].es.y_true) = 1
    /\ gcReturned.id = 1
    /\ gcReturned.es.y_predictedClassProbabilities.isNone
    /\ Len(gcReturned.es.y_true) = 2

\* A first member with probabilities and a second one with a sample but without
\* probabilities: the construction of the global statistics raises
C17_MixedListRaises ==
    /\ gcCalls >= 1
    /\ Len(gcList) = 2
    /\ HasProbabilities(1)
    /\ ~HasProbabilities(2)
    /\ Len(gcList[2].es.y_true) = 1
    /\ gcRaised = "ValueError"
    /\ gcGlobal.isNone

====
